---- MODULE Spec2Model ----
(***************************************************************************)
(* Model of the MUS engine of clingexplaid                                 *)
(* (src/src/clingexplaid/mus/core_computer.py): CoreComputer.shrink,       *)
(* CoreComputer._compute_single_minimal (iterative deletion) and           *)
(* CoreComputer.get_multiple_minimal (powerset enumeration).               *)
(*                                                                         *)
(* The external solver is a monotone oracle: a program is the family of    *)
(* its minimal conflicts ("cores"); a set of assumptions is unsatisfiable  *)
(* iff it contains one of them.                                            *)
(*                                                                         *)
(* Optional[...] values are sets with at most one element: {} is None.     *)
(* One step of the model is one solver call together with the code that    *)
(* runs between it and the next solver call; the clock advances only       *)
(* during solver calls, by any amount.                                     *)
(***************************************************************************)
EXTENDS Integers, Sequences, FiniteSets, TLC

\* ---- bounds of the model -------------------------------------------------
NumLits == 2        \* number of solver literals that can be assumed
MaxCores == 2       \* number of minimal conflicts of a program
MaxTime == 2        \* the clock runs over 0..MaxTime
MaxTimeout == 1     \* timeout arguments range over -1..MaxTimeout
MaxMus == 2         \* max_mus arguments range over 0..MaxMus

Lits == 1..NumLits

VARIABLES
    cores,              \* the grounded program behind self.control
    assumption_set,     \* self.assumption_set
    aorder,             \* the order in which self.assumption_set iterates
    minimal,            \* self.minimal (Optional[UnsatisfiableSubset])
    M,                  \* self._assumptions_minimal
    removed,            \* self._assumptions_removed
    op,                 \* operation in progress: "none", "shrink", "gmm"
    pc,                 \* position inside the operation
    input,              \* shrink: the assumptions argument as supplied
    now,                \* time.perf_counter()
    time_start,         \* _compute_single_minimal: time_start
    timeout,            \* _compute_single_minimal: timeout (Optional)
    a_literals,         \* _compute_single_minimal: a_literals
    W,                  \* _compute_single_minimal: working_set
    tested,             \* assumptions the for loop has visited, in order
    timeout_reached,    \* _compute_single_minimal: timeout_reached
    deadline,           \* get_multiple_minimal: deadline (Optional)
    max_mus,            \* get_multiple_minimal: max_mus (Optional)
    ci,                 \* get_multiple_minimal: position in the powerset
    found_sat,          \* get_multiple_minimal: found_sat
    found_mus,          \* get_multiple_minimal: found_mus
    yielded,            \* what the generator has yielded so far
    warnings,           \* number of warnings.warn calls
    solver_calls,       \* number of control.solve calls of the operation
    late_calls          \* solver calls started after the deadline passed

vars == <<cores, assumption_set, aorder, minimal, M, removed, op, pc, input,
          now, time_start, timeout, a_literals, W, tested, timeout_reached,
          deadline, max_mus, ci, found_sat, found_mus, yielded, warnings,
          solver_calls, late_calls>>

\* the objects of the explorers (src/src/clingexplaid/mus/explorers)
VARIABLES
    explorer,           \* the class of the Explorer constructed, or "none"
    _assumptions,       \* Explorer._assumptions
    _powerset,          \* ExplorerPowerset._powerset: what the iterator has left
    _found_sat,         \* Explorer._found_sat
    _found_mus,         \* Explorer._found_mus
    _assumption_to_rid, \* ExplorerAsp._assumption_to_rid
    _control,           \* ExplorerAsp._control: the constraints added so far
    candidates_out,     \* what candidates() has yielded so far
    turns,              \* ExplorerPowerset: the subsets the for loop has visited
    explored_out,       \* the last call of explored() and its result (Optional)
    candidate,          \* ExplorerAsp: the set candidates() yielded last (Optional)
    after_reset         \* reset() was "never" called, was the "last" call, or an "earlier" one

explorer_vars == <<explorer, _assumptions, _powerset, _found_sat, _found_mus,
                   _assumption_to_rid, _control, candidates_out, turns, explored_out,
                   candidate, after_reset>>

\* the objects of the assumption preprocessor
\* (src/src/clingexplaid/preprocessors/preprocessor_assumption.py)
VARIABLES
    filters,                    \* self.filters
    _filters_convert_nothing,   \* self._filters_convert_nothing
    _processed,                 \* self._processed
    _fail_on_unprocessed,       \* self._fail_on_unprocessed
    _parsed_rules,              \* self._parsed_rules
    _constants,                 \* self._constants: the names defined so far
    preprocessor_assumptions,   \* AssumptionPreprocessor._assumptions
    program_string,             \* the program the completed call was given (Optional)
    process_out,                \* what the last process/process_files returned (Optional)
    assumptions_out             \* the outcome of the last read of .assumptions (Optional)

preprocessor_vars == <<filters, _filters_convert_nothing, _processed, _fail_on_unprocessed,
                       _parsed_rules, _constants, preprocessor_assumptions,
                       program_string, process_out, assumptions_out>>

\* the objects of the constraint tagger
\* (src/src/clingexplaid/transformers/transformer_constraint.py)
VARIABLES
    _include_id,                \* self._include_id
    _constraint_id,             \* self._constraint_id
    constraint_location_lookup, \* self.constraint_location_lookup
    visited_nodes,                   \* the statements the transformer was called with
    emitted_nodes,                   \* the statements it returned, in order
    line                        \* the line of the next statement of the text parsed

tagger_vars == <<_include_id, _constraint_id, constraint_location_lookup, visited_nodes,
                 emitted_nodes,line>>

\* the objects of the unsat-constraint locator
\* (src/src/clingexplaid/unsat_constraints/unsat_constraint_computer.py)
VARIABLES
    program_transformed,        \* self.program_transformed (Optional)
    _file_constraint_lookup,    \* self._file_constraint_lookup
    initialized,                \* self.initialized
    control_program,            \* the statements added to self.control
    locator_input,              \* the entry point used and the program given (Optional)
    unsat_constraints_out,      \* what get_unsat_constraints returned (Optional)
    assumption_strings          \* the arguments of the get_unsat_constraints calls so far

locator_vars == <<program_transformed, _file_constraint_lookup, initialized,
                  control_program, locator_input, unsat_constraints_out,
                  assumption_strings>>

\* the objects of the assumption transformer and the control it is asked about
\* (src/src/clingexplaid/transformers/transformer_assumption.py)
VARIABLES
    fact_rules,                 \* self.fact_rules
    transformed,                \* self.transformed
    program_constants,          \* self.program_constants: the names defined
    control_grounded,           \* whether and when the control was grounded
    symbolic_atoms,             \* control.symbolic_atoms
    literals_out                \* the outcome of get_assumption_literals (Optional)

transformer_vars == <<fact_rules, transformed, program_constants, control_grounded,
                      symbolic_atoms, literals_out>>

\* the objects of the solver-decision observer and the solver's assignment
\* (src/src/clingexplaid/propagators/propagator_solver_decisions.py)
VARIABLES
    stack,                      \* the assignment: decision levels with their entailments
    last_decisions,             \* self.last_decisions
    propagate_out,              \* what the last propagate call emitted (Optional)
    undo_out,                   \* what the last undo call did (Optional)
    undone_decisions            \* the decisions undone by undo calls since the last propagate call

propagator_vars == <<stack, last_decisions, propagate_out, undo_out, undone_decisions>>

\* the state of the components a CoreComputer behaviour does not exercise
other_vars == <<explorer_vars, preprocessor_vars, tagger_vars, locator_vars,
                transformer_vars, propagator_vars>>

\* everything but the explorers
explorer_rest == <<vars, preprocessor_vars, tagger_vars, locator_vars,
                   transformer_vars, propagator_vars>>

\* everything but the preprocessor
preprocessor_rest == <<vars, explorer_vars, tagger_vars, locator_vars,
                       transformer_vars, propagator_vars>>

\* everything but the constraint tagger
tagger_rest == <<vars, explorer_vars, preprocessor_vars, locator_vars,
                 transformer_vars, propagator_vars>>

\* everything but the locator
locator_rest == <<vars, explorer_vars, preprocessor_vars, tagger_vars,
                  transformer_vars, propagator_vars>>

\* everything but the assumption transformer
transformer_rest == <<vars, explorer_vars, preprocessor_vars, tagger_vars, locator_vars,
                      propagator_vars>>

\* everything but the solver-decision observer
propagator_rest == <<vars, explorer_vars, preprocessor_vars, tagger_vars, locator_vars,
                     transformer_vars>>

\* ---- helpers --------------------------------------------------------------
Range(s) == {s[i] : i \in 1..Len(s)}

Abs(x) == IF x < 0 THEN -x ELSE x

Val(o) == CHOOSE v \in o : TRUE

\* the orders in which a Python set with the elements of S can iterate
Orders(S) ==
    {s \in [1..Cardinality(S) -> S] : \A i, j \in 1..Cardinality(S) : s[i] = s[j] => i = j}

\* the lists without repetition over the elements of S
Lists(S) == UNION {Orders(T) : T \in SUBSET S}

\* programs: antichains of at most MaxCores conflicts over Lits
Programs == {C \in SUBSET (SUBSET Lits) :
                /\ Cardinality(C) <= MaxCores
                /\ \A c, d \in C : c \subseteq d => c = d}

Timeouts == {{}} \cup {{t} : t \in -1..MaxTimeout}

Caps == {{}} \cup {{k} : k \in 0..MaxMus}

\* ---- CoreComputer ----------------------------------------------------------
\* self.literal_lookup: the symbol of a literal (symbols are numbered like atoms)
literal_lookup(l) == l

\* AssumptionWrapper(literal, symbol, sign)
AssumptionWrapper(l) == [literal |-> l, symbol |-> literal_lookup(Abs(l)), sign |-> l >= 0]

\* UnsatisfiableSubset(assumptions, minimal=False)
UnsatisfiableSubset(wrappers, flag) == [assumptions |-> wrappers, minimal |-> flag]

UnsatisfiableSubsetDefault(wrappers) == UnsatisfiableSubset(wrappers, FALSE)

_build_unsatisfiable_subset(assumptions, flag) ==
    UnsatisfiableSubset({AssumptionWrapper(l) : l \in assumptions}, flag)

\* the literals of an UnsatisfiableSubset
Literals(us) == {w.literal : w \in us.assumptions}

\* UnsatisfiableSubset.__iter__: (symbol, sign) tuples, as Python values
iter_symbols(us) == {<<"tuple", w.symbol, w.sign>> : w \in us.assumptions}

\* a set of int literals, as Python values
IntValues(S) == {<<"int", l, TRUE>> : l \in S}

\* control.solve(assumptions=...).get().satisfiable
_is_satisfiable(assumptions) == ~ \E c \in cores : c \subseteq assumptions

\* _convert_assumptions: the set of the literals of an iterable
_convert_assumptions(assumptions) == Range(assumptions)


\* itertools.combinations(s, r) as a sequence of sets, in itertools' order
RECURSIVE combinations(_, _)
combinations(s, r) ==
    IF r = 0 THEN <<{}>>
    ELSE IF Len(s) < r THEN <<>>
    ELSE LET with == combinations(Tail(s), r - 1)
         IN [i \in 1..Len(with) |-> {Head(s)} \cup with[i]] \o combinations(Tail(s), r)

\* variant: reversed(range(n)), the full assumption set is never a candidate
SubsetSizesWithoutFull(n) == [i \in 1..n |-> n - i]

\* reversed(range(n + 1)) as a sequence
SubsetSizes(n) == [i \in 1..(n + 1) |-> n + 1 - i]

\* chain.from_iterable(combinations(assumptions, r) for r in sizes)
RECURSIVE chain(_, _)
chain(s, sizes) ==
    IF sizes = <<>> THEN <<>>
    ELSE combinations(s, Head(sizes)) \o chain(s, Tail(sizes))

\* get_multiple_minimal: assumption_powerset
assumption_powerset == chain(aorder, SubsetSizes(Len(aorder)))

\* variant: the empty assumption set goes unnoticed
EmptyWarningNever(assumptions) == 0

\* line 150: if not assumptions: warnings.warn(...)
EmptyWarning(assumptions) == IF Len(assumptions) = 0 THEN 1 ELSE 0

\* variant: no short-circuit on a satisfiable assumption set
ShortCircuitNever(satisfiable) == FALSE

\* line 158: if satisfiable: return UnsatisfiableSubset(set())
ShortCircuit(satisfiable) == satisfiable

\* variant: the current assumption is not taken out of the solver call
LoopQueryWithAll(working_set, mus_members) == working_set \cup mus_members \cup a_literals

\* line 168: the assumptions of the solver call inside the deletion loop
LoopQuery(working_set, mus_members) == working_set \cup mus_members

\* variant: the loop forgets what it has visited
RemainingAll(literals, visited) == literals

\* line 164: what the for loop over a_literals has still to visit
Remaining(literals, visited) == literals \ Range(visited)

\* variant: the loop stops as soon as the members found are satisfiable
FoundMusInverted(satisfiable) == satisfiable

\* line 174: if not self._is_satisfiable(assumptions=self._assumptions_minimal): break
FoundMus(satisfiable) == ~ satisfiable

\* variant: the deadline is never looked at
TimeoutHitNever(tmo, start, clock) == FALSE

\* line 181: timeout is not None and time_start + timeout < time.perf_counter()
TimeoutHit(tmo, start, clock) == tmo # {} /\ start + Val(tmo) < clock

\* line 228: any(set(sat).issuperset(current_subset) for sat in found_sat)
SatSkip(current_subset, sats) == \E i \in 1..Len(sats) : current_subset \subseteq sats[i]

\* line 231: any(set(mus).issubset(current_subset) for mus in found_mus)
MusSkip(current_subset, muses) ==
    \E i \in 1..Len(muses) : iter_symbols(muses[i]) \subseteq IntValues(current_subset)

\* variant: every result counts as new
NotInFoundMusAlways(mus, muses) == TRUE

\* line 242: mus not in found_mus
NotInFoundMus(mus, muses) == \A i \in 1..Len(muses) : muses[i] # mus

\* variant: the cap is noticed one MUS late
CapReachedOneLate(muses, cap) == cap # {} /\ Len(muses) = Val(cap) + 1

\* line 246: max_mus is not None and len(found_mus) == max_mus
CapReached(muses, cap) == cap # {} /\ Len(muses) = Val(cap)

\* the deadline the operation in progress was given, if any
OpDeadline ==
    IF op = "gmm" THEN deadline
    ELSE IF timeout = {} THEN {} ELSE {time_start + Val(timeout)}

\* no Explorer has been constructed
NoExplorer ==
    /\ explorer = "none"
    /\ _assumptions = {}
    /\ _powerset = <<>>
    /\ _found_sat = <<>>
    /\ _found_mus = <<>>
    /\ _assumption_to_rid = <<>>
    /\ _control = {}
    /\ candidates_out = <<>>
    /\ turns = <<>>
    /\ explored_out = {}
    /\ candidate = {}
    /\ after_reset = "never"

\* no AssumptionPreprocessor has been constructed
NoPreprocessor ==
    /\ filters = {}
    /\ _filters_convert_nothing = FALSE
    /\ _processed = FALSE
    /\ _fail_on_unprocessed = TRUE
    /\ _parsed_rules = <<>>
    /\ _constants = {}
    /\ preprocessor_assumptions = {}
    /\ program_string = {}
    /\ process_out = {}
    /\ assumptions_out = {}

\* no ConstraintTransformer has been constructed
NoTagger ==
    /\ _include_id = FALSE
    /\ _constraint_id = 1
    /\ constraint_location_lookup = <<>>
    /\ visited_nodes = <<>>
    /\ emitted_nodes = <<>>
    /\ line = 1

\* no UnsatConstraintComputer has been constructed
NoLocator ==
    /\ program_transformed = {}
    /\ _file_constraint_lookup = <<>>
    /\ initialized = FALSE
    /\ control_program = {}
    /\ locator_input = {}
    /\ unsat_constraints_out = {}
    /\ assumption_strings = <<>>

\* no AssumptionTransformer has been constructed
NoTransformer ==
    /\ fact_rules = <<>>
    /\ transformed = FALSE
    /\ program_constants = {}
    /\ control_grounded = "no"
    /\ symbolic_atoms = {}
    /\ literals_out = {}

\* no SolverDecisionPropagator has been registered
NoPropagator ==
    /\ stack = <<>>
    /\ last_decisions = <<>>
    /\ propagate_out = {}
    /\ undo_out = {}
    /\ undone_decisions = {}

\* ---- initial state: a CoreComputer right after construction ---------------
Init ==
    /\ cores \in Programs
    /\ assumption_set \in SUBSET Lits
    /\ aorder = <<>>
    /\ minimal = {}
    /\ M = {}
    /\ removed = {}
    /\ op = "none"
    /\ pc = "idle"
    /\ input = <<>>
    /\ now = 0
    /\ time_start = 0
    /\ timeout = {}
    /\ a_literals = {}
    /\ W = {}
    /\ tested = <<>>
    /\ timeout_reached = FALSE
    /\ deadline = {}
    /\ max_mus = {}
    /\ ci = 1
    /\ found_sat = <<>>
    /\ found_mus = <<>>
    /\ yielded = <<>>
    /\ warnings = 0
    /\ solver_calls = 0
    /\ late_calls = 0
    /\ NoExplorer
    /\ NoPreprocessor
    /\ NoTagger
    /\ NoLocator
    /\ NoTransformer
    /\ NoPropagator

\* ---- _compute_single_minimal -----------------------------------------------
\* lines 141-153: entry up to the first solver call
EnterCompute(assumptions, tmo) ==
    /\ time_start' = now
    /\ timeout' = tmo
    /\ M' = {}
    /\ warnings' = warnings + EmptyWarning(assumptions)
    /\ a_literals' = _convert_assumptions(assumptions)
    /\ W' = {}
    /\ tested' = <<>>
    /\ timeout_reached' = FALSE
    /\ solver_calls' = 0
    /\ pc' = "first"

\* the locals of _compute_single_minimal while the call is in progress
Locals(working_set, visited, reached) ==
    /\ W' = working_set
    /\ tested' = visited
    /\ timeout_reached' = reached
    /\ UNCHANGED <<a_literals, time_start, timeout>>

\* the locals are gone once get_multiple_minimal has the result
DropLocals ==
    /\ W' = {}
    /\ tested' = <<>>
    /\ timeout_reached' = FALSE
    /\ a_literals' = {}
    /\ time_start' = 0
    /\ timeout' = {}

\* _compute_single_minimal goes on to its next solver call
Goto(position, working_set, visited, calls) ==
    /\ pc' = position
    /\ solver_calls' = calls
    /\ Locals(working_set, visited, FALSE)
    /\ UNCHANGED <<minimal, ci, found_sat, found_mus, yielded>>

\* the return of _compute_single_minimal to its caller: shrink stores the
\* result (line 196) and returns; get_multiple_minimal goes on at line 237
Return(mus, working_set, visited, reached, calls) ==
    IF op = "shrink"
    THEN /\ minimal' = {mus}
         /\ pc' = "done"
         /\ solver_calls' = calls
         /\ Locals(working_set, visited, reached)
         /\ UNCHANGED <<ci, found_sat, found_mus, yielded>>
    ELSE /\ UNCHANGED minimal
         /\ DropLocals
         /\ solver_calls' = 0
         /\ ci' = ci + 1
         /\ IF Cardinality(mus.assumptions) = 0
            THEN /\ found_sat' = Append(found_sat, assumption_powerset[ci])
                 /\ pc' = "gmm"
                 /\ UNCHANGED <<found_mus, yielded>>
            ELSE IF NotInFoundMus(mus, found_mus)
            THEN /\ found_mus' = Append(found_mus, mus)
                 /\ yielded' = Append(yielded, mus)
                 /\ pc' = IF CapReached(found_mus', max_mus) THEN "done" ELSE "gmm"
                 /\ UNCHANGED found_sat
            ELSE /\ pc' = "gmm"
                 /\ UNCHANGED <<found_sat, found_mus, yielded>>

\* lines 180-185: the deadline check that ends an iteration, the end of the
\* for loop, and the return
EndIteration(mus_members, working_set, visited, t1, calls) ==
    IF TimeoutHit(timeout, time_start, t1)
    THEN Return(_build_unsatisfiable_subset(mus_members, FALSE), working_set, visited, TRUE, calls)
    ELSE IF Remaining(a_literals, visited) = {}
    THEN Return(_build_unsatisfiable_subset(mus_members, TRUE), working_set, visited, FALSE, calls)
    ELSE Goto("loop", working_set, visited, calls)

\* one control.solve call that starts now and ends at clock value t1
SolverCall(t1) ==
    /\ t1 >= now
    /\ now' = t1
    /\ late_calls' = late_calls + (IF OpDeadline # {} /\ now > Val(OpDeadline) THEN 1 ELSE 0)

\* lines 157-162: the solver call on the full assumption set
FirstSolve ==
    /\ pc = "first"
    /\ UNCHANGED other_vars
    /\ \E t1 \in 0..MaxTime :
        /\ SolverCall(t1)
        /\ IF ShortCircuit(_is_satisfiable(a_literals))
           THEN Return(UnsatisfiableSubsetDefault({}), W, tested, FALSE, solver_calls + 1)
           ELSE IF Remaining(a_literals, tested) = {}
           THEN Return(_build_unsatisfiable_subset(M, TRUE), a_literals, tested, FALSE, solver_calls + 1)
           ELSE Goto("loop", a_literals, tested, solver_calls + 1)
    /\ UNCHANGED <<cores, assumption_set, aorder, M, removed, op, input, deadline,
                   max_mus, warnings>>

\* lines 164-171, 176-183: the next assumption of the for loop and the solver
\* call without it
LoopSolve ==
    /\ pc = "loop"
    /\ UNCHANGED other_vars
    /\ \E assumption \in Remaining(a_literals, tested), t1 \in 0..MaxTime :
        LET working_set == W \ {assumption}
            visited == Append(tested, assumption)
        IN /\ SolverCall(t1)
           /\ IF _is_satisfiable(LoopQuery(working_set, M))
              THEN /\ M' = M \cup {assumption}
                   /\ UNCHANGED removed
                   /\ Goto("check", working_set, visited, solver_calls + 1)
              ELSE /\ removed' = removed \cup {assumption}
                   /\ UNCHANGED M
                   /\ EndIteration(M, working_set, visited, t1, solver_calls + 1)
    /\ UNCHANGED <<cores, assumption_set, aorder, op, input, deadline, max_mus, warnings>>

\* lines 174-175, 180-183: the solver call on the MUS members found so far
CheckSolve ==
    /\ pc = "check"
    /\ UNCHANGED other_vars
    /\ \E t1 \in 0..MaxTime :
        /\ SolverCall(t1)
        /\ IF FoundMus(_is_satisfiable(M))
           THEN Return(_build_unsatisfiable_subset(M, TRUE), W, tested, FALSE, solver_calls + 1)
           ELSE EndIteration(M, W, tested, t1, solver_calls + 1)
    /\ UNCHANGED <<cores, assumption_set, aorder, M, removed, op, input, deadline,
                   max_mus, warnings>>

\* ---- shrink -----------------------------------------------------------------
\* the assumptions arguments of shrink: None or a list of assumption literals
ShrinkArguments == {{}} \cup {{s} : s \in Lists(assumption_set)}

\* lines 187-196 and 141-153
Shrink ==
    /\ pc = "idle"
    /\ UNCHANGED other_vars
    /\ \E assumptions \in ShrinkArguments, tmo \in Timeouts, order \in Orders(assumption_set) :
        LET supplied == IF assumptions = {} THEN order ELSE Val(assumptions)
        IN /\ aorder' = IF assumptions = {} THEN order ELSE aorder
           /\ input' = supplied
           /\ EnterCompute(supplied, tmo)
    /\ op' = "shrink"
    /\ late_calls' = 0
    /\ UNCHANGED <<cores, assumption_set, minimal, removed, now, deadline,
                   max_mus, ci, found_sat, found_mus, yielded>>

\* ---- get_multiple_minimal ------------------------------------------------------
\* lines 208-216: the call, up to the first pass through the for loop
GetMultipleMinimal ==
    /\ pc = "idle"
    /\ UNCHANGED other_vars
    /\ \E cap \in Caps, tmo \in Timeouts, order \in Orders(assumption_set) :
        /\ max_mus' = cap
        /\ deadline' = IF tmo = {} THEN {} ELSE {now + Val(tmo)}
        /\ aorder' = order
    /\ op' = "gmm"
    /\ pc' = "gmm"
    /\ ci' = 1
    /\ found_sat' = <<>>
    /\ found_mus' = <<>>
    /\ yielded' = <<>>
    /\ late_calls' = 0
    /\ UNCHANGED <<cores, assumption_set, minimal, M, removed, input, now, time_start,
                   timeout, a_literals, W, tested, timeout_reached, warnings, solver_calls>>

\* lines 218-234: one pass through the for loop up to the call of
\* _compute_single_minimal
NextCandidate ==
    /\ pc = "gmm"
    /\ UNCHANGED other_vars
    /\ LET time_remaining == IF deadline = {} THEN {} ELSE {Val(deadline) - now}
       IN IF ci > Len(assumption_powerset)
          THEN /\ pc' = "done"
               /\ UNCHANGED <<ci, warnings, M, time_start, timeout, a_literals, W, tested,
                              timeout_reached, solver_calls>>
          ELSE IF time_remaining # {} /\ Val(time_remaining) <= 0
          THEN /\ warnings' = warnings + 1
               /\ pc' = "done"
               /\ UNCHANGED <<ci, M, time_start, timeout, a_literals, W, tested,
                              timeout_reached, solver_calls>>
          ELSE IF \/ Cardinality(assumption_powerset[ci]) = 0
                  \/ SatSkip(assumption_powerset[ci], found_sat)
                  \/ MusSkip(assumption_powerset[ci], found_mus)
          THEN /\ ci' = ci + 1
               /\ UNCHANGED <<pc, warnings, M, time_start, timeout, a_literals, W, tested,
                              timeout_reached, solver_calls>>
          ELSE /\ \E current_subset \in Orders(assumption_powerset[ci]) :
                    EnterCompute(current_subset, time_remaining)
               /\ UNCHANGED ci
    /\ UNCHANGED <<cores, assumption_set, aorder, minimal, removed, op, input, now,
                   deadline, max_mus, found_sat, found_mus, yielded, late_calls>>

Next ==
    \/ Shrink
    \/ FirstSolve
    \/ LoopSolve
    \/ CheckSolve
    \/ GetMultipleMinimal
    \/ NextCandidate

Spec == Init /\ [][Next]_vars

\* reachable types
TypeOK ==
    /\ cores \in Programs
    /\ pc \in {"idle", "first", "loop", "check", "gmm", "done"}
    /\ op \in {"none", "shrink", "gmm"}
    /\ M \subseteq Lits /\ W \subseteq Lits /\ removed \subseteq Lits
    /\ now \in 0..MaxTime


\* ---- properties ---------------------------------------------------------------
\* the standard MUS property of a set of assumption literals
MusProperty(S) == ~ _is_satisfiable(S) /\ \A m \in S : _is_satisfiable(S \ {m})

\* shrink has returned
ShrinkDone == op = "shrink" /\ pc = "done"

\* lines 161-178 as a fold: the MUS members after the for loop has visited
\* the assumptions of the sequence visited, starting from working set
\* working_set and members mus_members
RECURSIVE DeletionMembers(_, _, _)
DeletionMembers(visited, working_set, mus_members) ==
    IF visited = <<>> THEN mus_members
    ELSE LET w == working_set \ {Head(visited)}
         IN IF _is_satisfiable(LoopQuery(w, mus_members))
            THEN DeletionMembers(Tail(visited), w, mus_members \cup {Head(visited)})
            ELSE DeletionMembers(Tail(visited), w, mus_members)

\* C1: when the assumption set A given to shrink is unsatisfiable and shrink
\* returns a subset with minimal = true, the subset is contained in A, is
\* unsatisfiable, and becomes satisfiable when any one member is removed.
C1_ShrinkMinimalIsMus ==
    (ShrinkDone /\ ~ _is_satisfiable(Range(input)) /\ Val(minimal).minimal)
        => /\ Literals(Val(minimal)) \subseteq Range(input)
           /\ MusProperty(Literals(Val(minimal)))

C1_Witness ==
    /\ ShrinkDone
    /\ ~ _is_satisfiable(Range(input))
    /\ Val(minimal).minimal
    /\ Literals(Val(minimal)) # {}
    /\ Literals(Val(minimal)) # Range(input)

\* C2: every subset get_multiple_minimal yields, whatever max_mus and timeout,
\* has the MUS property.
C2_YieldedAreMus ==
    \A i \in 1..Len(yielded) : MusProperty(Literals(yielded[i]))

\* C3: run to exhaustion without cap and without timeout, get_multiple_minimal
\* yields every non-empty minimal unsatisfiable subset of the assumption set.
C3_AllMusYielded ==
    (op = "gmm" /\ pc = "done" /\ max_mus = {} /\ deadline = {})
        => \A S \in SUBSET assumption_set :
              (S # {} /\ MusProperty(S)) => \E i \in 1..Len(yielded) : Literals(yielded[i]) = S

C3_Witness ==
    /\ op = "gmm" /\ pc = "done" /\ max_mus = {} /\ deadline = {}
    /\ Len(yielded) = 2

\* C4: within one run of get_multiple_minimal no yielded subset equals, or is
\* a superset of, a subset yielded earlier in the run.
C4_NoRedundantYield ==
    \A i, j \in 1..Len(yielded) :
        i < j => ~ (Literals(yielded[i]) \subseteq Literals(yielded[j]))

C4_Witness ==
    /\ op = "gmm" /\ pc = "done"
    /\ Len(yielded) = 2
    /\ yielded[1].minimal /\ yielded[2].minimal

\* C5 as stated: for every k >= 0, get_multiple_minimal(max_mus=k) yields at
\* most k subsets.
C5_AtMostCap ==
    max_mus # {} => Len(yielded) <= Val(max_mus)

\* C5 amended: for every k >= 1, get_multiple_minimal(max_mus=k) yields at
\* most k subsets (max_mus = 0 places no cap).
C5_AtMostPositiveCap ==
    (max_mus # {} /\ Val(max_mus) >= 1) => Len(yielded) <= Val(max_mus)

C5_Witness ==
    /\ op = "gmm" /\ pc = "done"
    /\ max_mus = {1}
    /\ Len(yielded) = 1
    /\ Cardinality({c \in cores : c # {} /\ c \subseteq assumption_set}) = 2

\* C6: when the program is satisfiable under the full assumption set, shrink
\* returns the empty subset after exactly one solver call and visits no
\* assumption for deletion.
C6_SatisfiableShortCircuit ==
    (ShrinkDone /\ _is_satisfiable(Range(input)))
        => /\ Val(minimal).assumptions = {}
           /\ solver_calls = 1
           /\ tested = <<>>

C6_Witness ==
    /\ ShrinkDone
    /\ _is_satisfiable(Range(input))
    /\ input # <<>>
    /\ ~ _is_satisfiable(assumption_set)
    /\ solver_calls = 1

\* C7: the minimal flag of the subset shrink returns is false if and only if
\* the computation was cut short by the deadline.
C7_FlagIffCutShort ==
    ShrinkDone => (Val(minimal).minimal = FALSE <=> timeout_reached)

C9_EmptyAssumptions ==
    (ShrinkDone /\ input = <<>>)
        => /\ warnings = 1
           /\ Val(minimal).assumptions = {}

C9_Witness ==
    /\ ShrinkDone
    /\ input = <<>>
    /\ ~ _is_satisfiable({})
    /\ warnings = 1

\* C10 as stated: within one shrink call the assumptions are visited for
\* deletion in the order in which the caller supplied them.
C10_InputOrder ==
    op = "shrink" => tested = SubSeq(input, 1, Len(tested))

\* C10 amended: within one shrink call the assumptions are visited in the
\* iteration order of the literal set built from the input, which need not be
\* the caller's order; each is visited at most once, and the subset returned
\* is the one iterative deletion computes along the order of the visits.
C10_SetOrder ==
    op = "shrink"
        => /\ Range(tested) \subseteq Range(input)
           /\ \A i, j \in 1..Len(tested) : tested[i] = tested[j] => i = j
           /\ (pc = "done" /\ ~ _is_satisfiable(Range(input)))
                => Literals(Val(minimal)) = DeletionMembers(tested, Range(input), {})

C10_Witness ==
    /\ ShrinkDone
    /\ Len(tested) = Len(input)
    /\ tested # input
    /\ Cardinality(Literals(Val(minimal))) = 2


\* ==== the explorers (src/src/clingexplaid/mus/explorers) =======================
MaxRecords == 1     \* add_sat and add_mus calls on one Explorer

\* no CoreComputer takes part
NoCoreComputer ==
    /\ cores = {}
    /\ assumption_set = {}
    /\ aorder = <<>>
    /\ minimal = {}
    /\ M = {}
    /\ removed = {}
    /\ op = "none"
    /\ pc = "idle"
    /\ input = <<>>
    /\ now = 0
    /\ time_start = 0
    /\ timeout = {}
    /\ a_literals = {}
    /\ W = {}
    /\ tested = <<>>
    /\ timeout_reached = FALSE
    /\ deadline = {}
    /\ max_mus = {}
    /\ ci = 1
    /\ found_sat = <<>>
    /\ found_mus = <<>>
    /\ yielded = <<>>
    /\ warnings = 0
    /\ solver_calls = 0
    /\ late_calls = 0

\* base.py: class ExplorationStatus(Enum)
SATISFIABLE == 1

UNSATISFIABLE == 2

UNKNOWN == 3

\* base.py line 36-38: self._found_sat.append(set(assumptions))
add_sat(sats, assumptions) == Append(sats, assumptions)

\* base.py line 40-42: self._found_mus.append(set(assumptions))
add_mus(muses, assumptions) == Append(muses, assumptions)

\* what a call other than reset() leaves of after_reset
LaterCall == IF after_reset = "never" THEN "never" ELSE "earlier"

\* the calls of add_sat and add_mus a behaviour may still make
MayRecord == Len(_found_sat) + Len(_found_mus) < MaxRecords

\* ---- ExplorerPowerset (explorers/powerset.py) ---------------------------------
\* line 13-15: chain.from_iterable(combinations(assumptions, r)
\*                                 for r in reversed(range(len(list(assumptions)) + 1)))
powerset_iterator(assumptions) == chain(assumptions, SubsetSizes(Len(assumptions)))

\* line 19: if len(current_subset) == 0: continue
EmptySkip(current_subset) == Cardinality(current_subset) = 0

\* variant: recorded satisfiable sets block their supersets
PowersetSatSkipSupersets(current_subset, sats) ==
    \E i \in 1..Len(sats) : sats[i] \subseteq current_subset

\* line 22: any(set(sat).issuperset(current_subset) for sat in self._found_sat)
PowersetSatSkip(current_subset, sats) ==
    \E i \in 1..Len(sats) : current_subset \subseteq sats[i]

\* line 25: any(set(mus).issubset(current_subset) for mus in self._found_mus)
PowersetMusSkip(current_subset, muses) ==
    \E i \in 1..Len(muses) : muses[i] \subseteq current_subset

\* line 18-27: the for loop passes over current_subset without yielding it
PowersetSkipped(current_subset, sats, muses) ==
    \/ EmptySkip(current_subset)
    \/ PowersetSatSkip(current_subset, sats)
    \/ PowersetMusSkip(current_subset, muses)

\* line 18-28: how many subsets the for loop passes over before its next yield
RECURSIVE SkippedPrefix(_, _, _)
SkippedPrefix(iterator, sats, muses) ==
    IF iterator = <<>> THEN 0
    ELSE IF PowersetSkipped(Head(iterator), sats, muses)
    THEN 1 + SkippedPrefix(Tail(iterator), sats, muses)
    ELSE 0

\* one turn of the for loop: the subset, what was recorded then, the outcome
Turn(current_subset, was_yielded) ==
    [subset |-> current_subset, sat |-> Range(_found_sat), mus |-> Range(_found_mus),
     yielded |-> was_yielded]

\* line 30-35: explored(assumption_set)
PowersetExploredStatus(query, sats, muses) ==
    IF \E i \in 1..Len(sats) : query \subseteq sats[i] THEN SATISFIABLE
    ELSE IF \E i \in 1..Len(muses) : muses[i] \subseteq query THEN SATISFIABLE
    ELSE UNKNOWN

\* line 11-15: ExplorerPowerset(assumptions), for any collection of assumptions
InitPowerset ==
    /\ NoCoreComputer
    /\ NoPreprocessor
    /\ NoTagger
    /\ NoLocator
    /\ NoTransformer
    /\ NoPropagator
    /\ explorer = "powerset"
    /\ \E A \in SUBSET Lits : \E assumptions \in Orders(A) :
        /\ _assumptions = A
        /\ _powerset = powerset_iterator(assumptions)
    /\ _found_sat = <<>>
    /\ _found_mus = <<>>
    /\ _assumption_to_rid = <<>>
    /\ _control = {}
    /\ candidates_out = <<>>
    /\ turns = <<>>
    /\ explored_out = {}
    /\ candidate = {}
    /\ after_reset = "never"

\* line 17-28: next(candidates()): the for loop runs up to its next yield or
\* to the end of the iterator
PowersetNext ==
    /\ explorer = "powerset"
    /\ _powerset # <<>>
    /\ LET k == SkippedPrefix(_powerset, _found_sat, _found_mus)
           n == IF k < Len(_powerset) THEN k + 1 ELSE k
       IN /\ turns' = turns \o [i \in 1..n |-> Turn(_powerset[i], i > k)]
          /\ _powerset' = SubSeq(_powerset, n + 1, Len(_powerset))
          /\ candidates_out' = IF k < Len(_powerset)
                               THEN Append(candidates_out, _powerset[k + 1])
                               ELSE candidates_out
    /\ explored_out' = {}
    /\ after_reset' = LaterCall
    /\ UNCHANGED <<explorer, _assumptions, _found_sat, _found_mus, _assumption_to_rid,
                   _control, candidate>>
    /\ UNCHANGED explorer_rest

\* base.py line 36-38: add_sat(assumptions)
PowersetAddSat ==
    /\ explorer = "powerset"
    /\ MayRecord
    /\ \E assumptions \in SUBSET _assumptions : _found_sat' = add_sat(_found_sat, assumptions)
    /\ explored_out' = {}
    /\ after_reset' = LaterCall
    /\ UNCHANGED <<explorer, _assumptions, _powerset, _found_mus, _assumption_to_rid,
                   _control, candidates_out, turns, candidate>>
    /\ UNCHANGED explorer_rest

\* base.py line 40-42: add_mus(assumptions)
PowersetAddMus ==
    /\ explorer = "powerset"
    /\ MayRecord
    /\ \E assumptions \in SUBSET _assumptions : _found_mus' = add_mus(_found_mus, assumptions)
    /\ explored_out' = {}
    /\ after_reset' = LaterCall
    /\ UNCHANGED <<explorer, _assumptions, _powerset, _found_sat, _assumption_to_rid,
                   _control, candidates_out, turns, candidate>>
    /\ UNCHANGED explorer_rest

\* line 30-35: explored(assumption_set)
PowersetExplored ==
    /\ explorer = "powerset"
    /\ \E query \in SUBSET _assumptions :
        explored_out' = {[assumption_set |-> query,
                          status |-> PowersetExploredStatus(query, _found_sat, _found_mus)]}
    /\ after_reset' = LaterCall
    /\ UNCHANGED <<explorer, _assumptions, _powerset, _found_sat, _found_mus,
                   _assumption_to_rid, _control, candidates_out, turns, candidate>>
    /\ UNCHANGED explorer_rest

\* an ExplorerPowerset driven through candidates(), add_sat and add_mus
NextPowerset ==
    \/ PowersetNext
    \/ PowersetAddSat
    \/ PowersetAddMus

SpecPowerset == InitPowerset /\ [][NextPowerset]_<<vars, other_vars>>

\* an ExplorerPowerset queried through explored() between the recordings
NextPowersetExplored ==
    \/ PowersetAddSat
    \/ PowersetAddMus
    \/ PowersetExplored

SpecPowersetExplored == InitPowerset /\ [][NextPowersetExplored]_<<vars, other_vars>>

\* C11: candidates() of ExplorerPowerset yields subsets in non-increasing
\* cardinality, never the same subset twice; every subset of A gets exactly one
\* turn, and at its turn it is yielded if and only if it is non-empty, is not a
\* subset of a set recorded by add_sat so far and is not a superset of a set
\* recorded by add_mus so far.
C11_PowersetCandidates ==
    explorer = "powerset" =>
        /\ \A i, j \in 1..Len(candidates_out) :
            i < j => /\ Cardinality(candidates_out[i]) >= Cardinality(candidates_out[j])
                     /\ candidates_out[i] # candidates_out[j]
        /\ \A i \in 1..Len(turns) :
            turns[i].yielded <=>
                /\ turns[i].subset # {}
                /\ ~ \E sat \in turns[i].sat : turns[i].subset \subseteq sat
                /\ ~ \E mus \in turns[i].mus : mus \subseteq turns[i].subset
        /\ Range(candidates_out) = {turns[i].subset : i \in {j \in 1..Len(turns) : turns[j].yielded}}
        /\ {turns[i].subset : i \in 1..Len(turns)} \cup Range(_powerset) = SUBSET _assumptions
        /\ Len(turns) + Len(_powerset) = Cardinality(SUBSET _assumptions)

\* the iterator is exhausted after a subset was yielded and a non-empty subset
\* was passed over for a set recorded before its turn
C11_Witness ==
    /\ explorer = "powerset"
    /\ _powerset = <<>>
    /\ Len(candidates_out) >= 1
    /\ \E i \in 1..Len(turns) :
        /\ ~ turns[i].yielded
        /\ turns[i].subset # {}
        /\ \/ \E sat \in turns[i].sat : turns[i].subset \subseteq sat
           \/ \E mus \in turns[i].mus : mus \subseteq turns[i].subset

\* C12: explored(S) of ExplorerPowerset returns Satisfiable if S is a subset of
\* a set recorded by add_sat, Unsatisfiable if S is a superset of a set
\* recorded by add_mus, and Unknown otherwise.
C12_ExploredStatus ==
    explorer = "powerset" /\ explored_out # {} =>
        LET query == Val(explored_out).assumption_set
        IN Val(explored_out).status =
            IF \E i \in 1..Len(_found_sat) : query \subseteq _found_sat[i] THEN SATISFIABLE
            ELSE IF \E i \in 1..Len(_found_mus) : _found_mus[i] \subseteq query THEN UNSATISFIABLE
            ELSE UNKNOWN

\* ---- ExplorerAsp (explorers/asp.py) ---------------------------------------------
MaxRules == 2       \* add_sat and add_mus calls on one ExplorerAsp

\* line 59-67: the representation ids 1, 2, ... in the order self._assumptions iterates
register_assumptions(order) ==
    [a \in Range(order) |-> CHOOSE rid \in 1..Len(order) : order[rid] = a]

\* self._rid_to_assumption[rid]
_rid_to_assumption(rid) ==
    CHOOSE a \in DOMAIN _assumption_to_rid : _assumption_to_rid[a] = rid

\* the atoms a(rid) of the meta-program (line 69-88: one choice atom each)
Rids == {_assumption_to_rid[a] : a \in DOMAIN _assumption_to_rid}

\* backend.add_rule([], body): a constraint over positive and negated atoms
Constraint(positive, negated) == [pos |-> positive, neg |-> negated]

\* variant: the constraint of add_sat carries the recorded set itself
add_sat_ruleOfMembers(assumptions) ==
    Constraint({_assumption_to_rid[a] : a \in assumptions \cap _assumptions}, {})

\* line 93-98: the constraint over the negated atoms of the assumptions not recorded
add_sat_rule(assumptions) ==
    LET rule_assumptions == {a \in _assumptions : a \notin assumptions}
    IN Constraint({}, {_assumption_to_rid[a] : a \in rule_assumptions})

\* variant: the constraint of add_mus carries the negated atoms of the MUS
add_mus_ruleNegated(assumptions) ==
    Constraint({}, {_assumption_to_rid[a] : a \in assumptions})

\* line 102-104: the constraint over the atoms of the recorded MUS
add_mus_rule(assumptions) ==
    Constraint({_assumption_to_rid[a] : a \in assumptions}, {})

\* variant: the solver ignores the constraints over negated atoms
AnswerSetsOfPositive(rules) ==
    {model \in SUBSET Rids :
        \A rule \in rules : rule.neg = {} => ~ (rule.pos \subseteq model)}

\* the answer sets of the meta-program: choices over the atoms that violate no constraint
AnswerSets(rules) ==
    {model \in SUBSET Rids :
        \A rule \in rules : ~ (rule.pos \subseteq model /\ rule.neg \cap model = {})}

\* line 117-118: the assumptions of a model
ModelAssumptions(model) == {_rid_to_assumption(rid) : rid \in model}

\* the calls of add_sat and add_mus a behaviour may still make
MayAddRule == Len(_found_sat) + Len(_found_mus) < MaxRules

\* line 46-60: ExplorerAsp(assumptions)
InitAsp ==
    /\ NoCoreComputer
    /\ NoPreprocessor
    /\ NoTagger
    /\ NoLocator
    /\ NoTransformer
    /\ NoPropagator
    /\ explorer = "asp"
    /\ \E A \in SUBSET Lits : \E order \in Orders(A) :
        /\ _assumptions = A
        /\ _assumption_to_rid = register_assumptions(order)
    /\ _powerset = <<>>
    /\ _found_sat = <<>>
    /\ _found_mus = <<>>
    /\ _control = {}
    /\ candidates_out = <<>>
    /\ turns = <<>>
    /\ explored_out = {}
    /\ candidate = {}
    /\ after_reset = "never"

\* line 90-98: add_sat(assumptions)
AspAddSat ==
    /\ explorer = "asp"
    /\ MayAddRule
    /\ \E assumptions \in SUBSET _assumptions :
        /\ _found_sat' = add_sat(_found_sat, assumptions)
        /\ _control' = _control \cup {add_sat_rule(assumptions)}
    /\ candidate' = {}
    /\ after_reset' = LaterCall
    /\ UNCHANGED <<explorer, _assumptions, _powerset, _found_mus, _assumption_to_rid,
                   candidates_out, turns, explored_out>>
    /\ UNCHANGED explorer_rest

\* line 100-104: add_mus(assumptions)
AspAddMus ==
    /\ explorer = "asp"
    /\ MayAddRule
    /\ \E assumptions \in SUBSET _assumptions :
        /\ _found_mus' = add_mus(_found_mus, assumptions)
        /\ _control' = _control \cup {add_mus_rule(assumptions)}
    /\ candidate' = {}
    /\ after_reset' = LaterCall
    /\ UNCHANGED <<explorer, _assumptions, _powerset, _found_sat, _assumption_to_rid,
                   candidates_out, turns, explored_out>>
    /\ UNCHANGED explorer_rest

\* line 106-118: next(candidates()): one solve call; the solver returns one of
\* the answer sets, the generator ends when there is none
AspNext ==
    /\ explorer = "asp"
    /\ \E model \in AnswerSets(_control) : candidate' = {ModelAssumptions(model)}
    /\ after_reset' = LaterCall
    /\ UNCHANGED <<explorer, _assumptions, _powerset, _found_sat, _found_mus,
                   _assumption_to_rid, _control, candidates_out, turns, explored_out>>
    /\ UNCHANGED explorer_rest

NextAsp ==
    \/ AspAddSat
    \/ AspAddMus
    \/ AspNext

SpecAsp == InitAsp /\ [][NextAsp]_<<vars, other_vars>>

\* the sets candidates() can yield in the current state
AspYieldable == {ModelAssumptions(model) : model \in AnswerSets(_control)}

\* C13 (as claimed): after add_sat(S), candidates() of ExplorerAsp never again
\* yields a set T with S contained in T.
C13_AddSatBlocksSupersets ==
    explorer = "asp" /\ candidate # {} =>
        \A i \in 1..Len(_found_sat) : ~ (_found_sat[i] \subseteq Val(candidate))

\* C13 (amended): after add_sat(S), candidates() of ExplorerAsp never again
\* yields a set T contained in S.
C13_AddSatBlocksSubsets ==
    explorer = "asp" /\ candidate # {} =>
        \A i \in 1..Len(_found_sat) : ~ (Val(candidate) \subseteq _found_sat[i])

\* a set is yielded after a proper, non-empty subset of the assumptions was
\* recorded as satisfiable
C13_Witness ==
    /\ explorer = "asp"
    /\ candidate # {}
    /\ \E i \in 1..Len(_found_sat) : _found_sat[i] # {} /\ _found_sat[i] # _assumptions

\* C14: after any sequence of add_sat and add_mus calls, the sets that
\* candidates() of ExplorerAsp can yield are exactly the subsets of A that are
\* neither a subset of a recorded satisfiable set nor a superset of a recorded
\* MUS, and what it has yielded is one of them.
C14_AspBlocksExactly ==
    explorer = "asp" =>
        /\ AspYieldable =
            {T \in SUBSET _assumptions :
                /\ ~ \E i \in 1..Len(_found_sat) : T \subseteq _found_sat[i]
                /\ ~ \E i \in 1..Len(_found_mus) : _found_mus[i] \subseteq T}
        /\ candidate # {} => Val(candidate) \in AspYieldable

\* a set is yielded after a satisfiable set and a MUS were recorded that block
\* some but not all subsets
C14_Witness ==
    /\ explorer = "asp"
    /\ candidate # {}
    /\ Len(_found_sat) >= 1
    /\ Len(_found_mus) >= 1
    /\ Cardinality(AspYieldable) < Cardinality(SUBSET _assumptions)


\* ==== the assumption preprocessor ================================================
\* (src/src/clingexplaid/preprocessors/preprocessor_assumption.py)
NumAtoms == 2       \* ground atoms of the programs processed
MaxStatements == 2  \* statements of a program text

\* the ground atoms; atom h has the predicate name SymbolName(h) and one argument
Atoms == 1..NumAtoms

\* symbol.name
SymbolName(h) == h % 2

\* len(symbol.arguments)
SymbolArity(h) == 1

\* the set S as a list in ascending order: sorted(S, key=str)
RECURSIVE SortedSeq(_)
SortedSeq(S) ==
    IF S = {} THEN <<>>
    ELSE LET least == CHOOSE x \in S : \A y \in S : x <= y
         IN <<least>> \o SortedSeq(S \ {least})

\* a statement as the parser delivers it: its AST type, the type of its head,
\* the ground atoms its head stands for in the program, its body literals and
\* the #const names it defines (Definition) or needs for a range in its head
AST(ast_type, head, atoms, pos, neg, names) ==
    [ast_type |-> ast_type, head |-> head, atoms |-> atoms,
     body_pos |-> pos, body_neg |-> neg, names |-> names]

\* #program base.
ProgramBase == AST("Program", "none", {}, {}, {}, {})

\* #const name = value.
Definition(name) == AST("Definition", "none", {}, {}, {}, {name})

\* h1. / h(1;2). / h(1..2). / h(1..n).
Fact(atoms, names) == AST("Rule", "Literal", atoms, {}, {}, names)

\* h :- b. / h :- not b.
NormalRule(h, pos, neg) == AST("Rule", "Literal", {h}, pos, neg, {})

\* :- b. / :- not b.
IntegrityConstraint(pos, neg) == AST("Rule", "Literal", {}, pos, neg, {})

\* { h1; h2 }.
Choice(elements) == AST("Rule", "Aggregate", elements, {}, {}, {})

\* the atom after b, cyclically
NextAtom(b) == (b % NumAtoms) + 1

\* the statements of the program texts processed: facts for one atom and for
\* all atoms, the range fact over the constant n, rules and constraints with
\* one body literal, choices over one atom, and the definition of n
Statements ==
    {Fact({h}, {}) : h \in Atoms}
    \cup {Fact(Atoms, {})}
    \cup {Fact(Atoms, {"n"})}
    \cup {NormalRule(NextAtom(b), {b}, {}) : b \in Atoms}
    \cup {NormalRule(NextAtom(b), {}, {b}) : b \in Atoms}
    \cup {IntegrityConstraint({b}, {}) : b \in Atoms}
    \cup {IntegrityConstraint({}, {b}) : b \in Atoms}
    \cup {Choice({h}) : h \in Atoms}
    \cup {Definition("n")}

\* the program texts processed
ProgramTexts == UNION {[1..k -> Statements] : k \in 0..MaxStatements}

\* the program texts of at most one statement
ShortTexts == {text \in ProgramTexts : Len(text) <= 1}

\* line 16-24: FilterSignature(name, arity)
FilterSignature(name, arity) ==
    [type |-> "signature", name |-> name, arity |-> arity, pattern |-> 0]

\* line 27-34: FilterPattern(pattern), for the pattern that is a ground atom
FilterPattern(pattern) ==
    [type |-> "pattern", name |-> 0, arity |-> 0, pattern |-> pattern]

\* the filters arguments of the constructor: None, or a collection of at most
\* one filter, or the two signature filters
FilterArguments ==
    {{}} \cup {{{}}}
    \cup {{{f}} : f \in {FilterSignature(0, 1), FilterSignature(1, 1),
                         FilterSignature(1, 2), FilterPattern(1)}}
    \cup {{{FilterSignature(0, 1), FilterSignature(1, 1)}}}

\* line 88-92: one filter applied to a symbol
FilterApplies(symbol_filter, symbol) ==
    IF symbol_filter.type = "pattern"
    THEN symbol_filter.pattern = symbol
    ELSE SymbolArity(symbol) = symbol_filter.arity /\ SymbolName(symbol) = symbol_filter.name

\* line 79-93: _any_filters_apply(symbol)
_any_filters_apply(symbol) ==
    IF _filters_convert_nothing THEN FALSE
    ELSE IF ~ _filters_convert_nothing /\ Cardinality(filters) = 0 THEN TRUE
    ELSE \E symbol_filter \in filters : FilterApplies(symbol_filter, symbol)

\* line 101-117: _unpool(ast_symbol): a head with a range is grounded under the
\* constants recorded so far, and a range over a name that is not among them
\* has no instance; any other head is unpooled syntactically
_unpool(rule, constants) ==
    IF rule.names # {}
    THEN IF rule.names \subseteq constants THEN rule.atoms ELSE {}
    ELSE rule.atoms

\* line 128-136: the instances that become choice elements
atoms_choice(rule, constants) ==
    {atom \in _unpool(rule, constants) : _any_filters_apply(atom)}

\* line 128-133: the instances that stay facts
atoms_retained(rule, constants) ==
    {atom \in _unpool(rule, constants) : ~ _any_filters_apply(atom)}

\* line 137-139, 156-157: the retained instances as facts, sorted
RetainedFacts(rule, constants) ==
    LET sorted == SortedSeq(atoms_retained(rule, constants))
    IN [i \in 1..Len(sorted) |-> Fact({sorted[i]}, {})]

\* variant: the selected instances are emitted as a pooled fact
_transform_ruleKeepsFact(rule, constants) ==
    IF rule.head # "Literal" THEN <<rule>>
    ELSE IF rule.body_pos \cup rule.body_neg # {} THEN <<rule>>
    ELSE IF Cardinality(atoms_choice(rule, constants)) > 0
    THEN <<Fact(atoms_choice(rule, constants), {})>> \o RetainedFacts(rule, constants)
    ELSE RetainedFacts(rule, constants)

\* line 119-157: _transform_rule(rule): the rules emitted for a rule
_transform_rule(rule, constants) ==
    IF rule.head # "Literal" THEN <<rule>>
    ELSE IF rule.body_pos \cup rule.body_neg # {} THEN <<rule>>
    ELSE IF Cardinality(atoms_choice(rule, constants)) > 0
    THEN <<Choice(atoms_choice(rule, constants))>> \o RetainedFacts(rule, constants)
    ELSE RetainedFacts(rule, constants)

\* line 141-144: the assumptions _transform_rule adds for a rule
NewAssumptions(rule, constants) ==
    IF rule.head # "Literal" \/ rule.body_pos \cup rule.body_neg # {} THEN {}
    ELSE {<<atom, TRUE>> : atom \in atoms_choice(rule, constants)}

\* line 159-181: _process_ast_list / register_ast as a fold over the statements
RECURSIVE _process_ast_list(_, _, _, _)
_process_ast_list(ast_list, rules, constants, assumptions) ==
    IF ast_list = <<>>
    THEN [rules |-> rules, constants |-> constants, assumptions |-> assumptions]
    ELSE LET ast == Head(ast_list)
         IN IF ast.ast_type = "Rule"
            THEN _process_ast_list(Tail(ast_list), rules \o _transform_rule(ast, constants),
                                   constants, assumptions \cup NewAssumptions(ast, constants))
            ELSE IF ast.ast_type = "Definition"
            THEN _process_ast_list(Tail(ast_list), Append(rules, ast),
                                   constants \cup ast.names, assumptions)
            ELSE _process_ast_list(Tail(ast_list), Append(rules, ast), constants, assumptions)

\* clingo.ast.parse_string: the statements of a text after #program base.
parse_string(text) == <<ProgramBase>> \o text

\* line 45-61: AssumptionPreprocessor(filters=..., fail_on_unprocessed=...)
InitPreprocessor ==
    /\ NoCoreComputer
    /\ NoExplorer
    /\ NoTagger
    /\ NoLocator
    /\ NoTransformer
    /\ NoPropagator
    /\ \E argument \in FilterArguments :
        /\ filters = IF argument # {} THEN Val(argument) ELSE {}
        /\ _filters_convert_nothing = (argument # {} /\ Cardinality(Val(argument)) = 0)
    /\ _processed = FALSE
    /\ _fail_on_unprocessed \in BOOLEAN
    /\ _parsed_rules = <<>>
    /\ _constants = {}
    /\ preprocessor_assumptions = {}
    /\ program_string = {}
    /\ process_out = {}
    /\ assumptions_out = {}

\* line 183-191 and 198-204: process(program_string), and process_files(files)
\* for files with the same statements, for a text among texts
Process(texts) ==
    /\ program_string = {}
    /\ \E text \in texts :
        LET done == _process_ast_list(parse_string(text), _parsed_rules, _constants,
                                      preprocessor_assumptions)
        IN /\ _parsed_rules' = done.rules
           /\ _constants' = done.constants
           /\ preprocessor_assumptions' = done.assumptions
           /\ process_out' = {done.rules}
           /\ program_string' = {text}
    /\ _processed' = TRUE
    /\ assumptions_out' = {}
    /\ UNCHANGED <<filters, _filters_convert_nothing, _fail_on_unprocessed>>
    /\ UNCHANGED preprocessor_rest

\* process on a program text
ProcessText == Process(ProgramTexts)

\* process on a text of at most one statement
ProcessShortText == Process(ShortTexts)

\* variant: a call without files counts as processing
ProcessedWithoutFilesCounts(processed) == TRUE

\* line 195-197: process_files(None) returns before self._processed is set
ProcessedWithoutFiles(processed) == processed

\* line 193-197: process_files(None)
ProcessFilesNone ==
    /\ process_out' = {<<>>}
    /\ _processed' = ProcessedWithoutFiles(_processed)
    /\ assumptions_out' = {}
    /\ UNCHANGED <<filters, _filters_convert_nothing, _fail_on_unprocessed, _parsed_rules,
                   _constants, preprocessor_assumptions, program_string>>
    /\ UNCHANGED preprocessor_rest

\* line 206-218: the property assumptions
ReadAssumptions ==
    /\ assumptions_out' =
        {[raised |-> ~ _processed /\ _fail_on_unprocessed,
          value |-> IF ~ _processed /\ _fail_on_unprocessed THEN {}
                    ELSE preprocessor_assumptions]}
    /\ UNCHANGED <<filters, _filters_convert_nothing, _processed, _fail_on_unprocessed,
                   _parsed_rules, _constants, preprocessor_assumptions, program_string,
                   process_out>>
    /\ UNCHANGED preprocessor_rest

\* a preprocessor with the default fail_on_unprocessed
InitRewrite == InitPreprocessor /\ _fail_on_unprocessed

\* the rewrite of a program text by a preprocessor
SpecPreprocessor == InitRewrite /\ [][ProcessText]_<<vars, other_vars>>

\* the life of a preprocessor: processing, and reading assumptions at any time
NextUnprocessed ==
    \/ ProcessShortText
    \/ ProcessFilesNone
    \/ ReadAssumptions

SpecUnprocessed == InitPreprocessor /\ [][NextUnprocessed]_<<vars, other_vars>>

\* a process call, or a process_files call with files, has completed
ProcessCompleted == program_string # {}

\* C15 (as claimed): reading assumptions raises UnprocessedException in every
\* state in which no process or process_files call has completed
\* (process_files(None) does not count), and never once one has completed.
C15_RaisesIffUnprocessed ==
    assumptions_out # {} => (Val(assumptions_out).raised <=> ~ ProcessCompleted)

\* C15 (amended): on a preprocessor constructed with fail_on_unprocessed=True
\* reading assumptions raises UnprocessedException exactly in the states in
\* which no process or process_files call has completed (process_files(None)
\* does not count); with fail_on_unprocessed=False it never raises.
C15_RaisesIffUnprocessedAndFailing ==
    assumptions_out # {} =>
        (Val(assumptions_out).raised <=> (~ ProcessCompleted /\ _fail_on_unprocessed))

\* assumptions is read, and raises, after process_files(None) has returned
C15_Witness ==
    /\ assumptions_out # {}
    /\ Val(assumptions_out).raised
    /\ process_out = {<<>>}

\* ---- the meaning of a program text ---------------------------------------------
\* the #const names a program defines (a definition holds for the whole text)
DefinedNames(text) ==
    UNION {text[i].names : i \in {j \in 1..Len(text) : text[j].ast_type = "Definition"}}

\* a rule with a literal head and an empty body
IsFact(ast) ==
    /\ ast.ast_type = "Rule"
    /\ ast.head = "Literal"
    /\ ast.body_pos \cup ast.body_neg = {}

\* a rule with a body
HasBody(ast) == ast.ast_type = "Rule" /\ ast.body_pos \cup ast.body_neg # {}

\* a statement that is a rule
IsRule(ast) == ast.ast_type = "Rule"

\* the ground instances of the head of a fact of a program
GroundInstances(text, ast) ==
    IF ast.names \subseteq DefinedNames(text) THEN ast.atoms ELSE {}

\* the ground instances of the facts of a program
FactInstances(text) ==
    UNION {GroundInstances(text, text[i]) : i \in {j \in 1..Len(text) : IsFact(text[j])}}

\* the atoms a choice rule of a program leaves open
ChoiceInstances(text) ==
    UNION {text[i].atoms : i \in {j \in 1..Len(text) :
                                    text[j].ast_type = "Rule" /\ text[j].head = "Aggregate"}}

\* one round of derivation in the reduct of a program relative to X
Derive(text, X, T) ==
    T \cup FactInstances(text) \cup (ChoiceInstances(text) \cap X)
      \cup UNION {text[i].atoms : i \in {j \in 1..Len(text) :
                    /\ HasBody(text[j])
                    /\ text[j].body_pos \subseteq T
                    /\ text[j].body_neg \cap X = {}}}

\* the least model of the reduct of a program relative to X
RECURSIVE LeastModel(_, _, _)
LeastModel(text, X, T) ==
    IF Derive(text, X, T) = T THEN T ELSE LeastModel(text, X, Derive(text, X, T))

\* X violates an integrity constraint of the program
ViolatesConstraint(text, X) ==
    \E i \in 1..Len(text) :
        /\ HasBody(text[i])
        /\ text[i].atoms = {}
        /\ text[i].body_pos \subseteq X
        /\ text[i].body_neg \cap X = {}

\* the stable models of a program
StableModels(text) ==
    {X \in SUBSET Atoms : LeastModel(text, X, {}) = X /\ ~ ViolatesConstraint(text, X)}

\* an instance is selected: no filters argument was given, or a non-empty
\* collection of filters was given and one of them matches
Selected(h) ==
    /\ ~ _filters_convert_nothing
    /\ filters = {} \/ \E symbol_filter \in filters : FilterApplies(symbol_filter, h)

\* C16: after process(P), (h, true) is in the assumption set if and only if h
\* is a ground instance of a body-less, literal-headed rule of P and h is
\* selected; selected instances are emitted as choice elements, unselected
\* instances as facts, and the rules with a body are emitted as they are.
C16_AssumptionsAreSelectedFacts ==
    program_string # {} =>
        LET text == Val(program_string)
            out == Val(process_out)
        IN /\ \A h \in Atoms :
                <<h, TRUE>> \in preprocessor_assumptions
                    <=> (h \in FactInstances(text) /\ Selected(h))
           /\ \A h \in FactInstances(text) :
                IF Selected(h) THEN h \in ChoiceInstances(out)
                ELSE \E i \in 1..Len(out) : out[i] = Fact({h}, {})
           /\ SelectSeq(out, HasBody) = SelectSeq(text, HasBody)

\* C17: process, by a fresh preprocessor with the same filters, applied to the
\* output of process(P) emits every rule of that output unchanged and in the
\* same order, and converts no further rule into a choice.
C17_RewriteIdempotent ==
    program_string # {} =>
        LET out == Val(process_out)
            again == _process_ast_list(parse_string(out), <<>>, {}, {})
        IN /\ SelectSeq(again.rules, IsRule) = SelectSeq(out, IsRule)
           /\ again.assumptions = {}

\* a program was processed of which one fact became a choice and another
\* stayed a fact
C17_Witness ==
    /\ program_string # {}
    /\ preprocessor_assumptions # {}
    /\ \E i \in 1..Len(Val(process_out)) : IsFact(Val(process_out)[i])
    /\ \E i \in 1..Len(Val(process_out)) : HasBody(Val(process_out)[i])

\* C18: for every program P the stable models of process(P), with the
\* assumptions of the preprocessor in force, are the stable models of P
\* (process introduces no atom, so the restriction to the atoms of P is void).
C18_ModelsPreserved ==
    program_string # {} =>
        {X \in StableModels(Val(process_out)) :
            \A a \in preprocessor_assumptions : a[1] \in X}
        = StableModels(Val(program_string))


\* ==== the constraint tagger =======================================================
\* (src/src/clingexplaid/transformers/transformer_constraint.py)
MaxVisits == 3      \* statements one ConstraintTransformer is called with

\* the head of a statement: its AST type, the AST type of its atom, the value
\* of a boolean constant or the atom of a symbolic atom, and the name and the
\* arguments of a function
HeadAst(ast_type, atom, value, name, args) ==
    [ast_type |-> ast_type, atom |-> atom, value |-> value, name |-> name,
     arguments |-> args]

\* #false
FalseHead == HeadAst("Literal", "BooleanConstant", 0, "", <<>>)

\* #true
TrueHead == HeadAst("Literal", "BooleanConstant", 1, "", <<>>)

\* the atom h
AtomHead(h) == HeadAst("Literal", "SymbolicAtom", h, "", <<>>)

\* { h }
AggregateHead(h) == HeadAst("Aggregate", "none", h, "", <<>>)

\* a statement without a head
NoHead == HeadAst("none", "none", 0, "", <<>>)

\* line 39-44: _ast.Function(location, name, arguments, external=0)
Function(name, args) == HeadAst("Function", "none", 0, name, args)

\* a statement: its AST type, head, body literals, weight and location
Node(ast_type, head, pos, neg, weight, location) ==
    [ast_type |-> ast_type, head |-> head, body_pos |-> pos, body_neg |-> neg,
     weight |-> weight, location |-> location]

\* head :- pos, not neg.
RuleNode(head, pos, neg, location) == Node("Rule", head, pos, neg, 0, location)

\* #minimize { weight : atom }.
MinimizeNode(weight, atom, location) == Node("Minimize", NoHead, {atom}, {}, weight, location)

\* the statements a transformer is called with at a location: rules with one
\* positive body literal under each kind of head, and a #minimize statement
TaggerStatements(location) ==
    {RuleNode(head, {b}, {}, location) :
        head \in {FalseHead, TrueHead, AtomHead(1), AggregateHead(1)}, b \in Atoms}
    \cup {MinimizeNode(1, 1, location)}

\* line 18: self._constraint_head_symbol of the transformer constructed
_constraint_head_symbol == "unsat"

\* line 28-33: the rule is an integrity constraint
IsConstraint(node) ==
    /\ node.head.ast_type = "Literal"
    /\ node.head.atom = "BooleanConstant"
    /\ node.head.value = 0

\* line 35-37: the arguments of the head symbol
arguments(constraint_id, include_id) == IF include_id THEN <<constraint_id>> ELSE <<>>

\* line 24-54: visit_Rule(node) for the transformer's head symbol, current
\* constraint id and include_id
visit_Rule(node, constraint_head_symbol, constraint_id, include_id) ==
    IF ~ IsConstraint(node) THEN node
    ELSE [node EXCEPT !.head = Function(constraint_head_symbol,
                                        arguments(constraint_id, include_id))]

\* line 47: self.constraint_location_lookup[self._constraint_id] = node.location
SetLocation(lookup, constraint_id, location) ==
    [k \in DOMAIN lookup \cup {constraint_id} |->
        IF k = constraint_id THEN location ELSE lookup[k]]

\* variant: the constraint id is never increased
NextConstraintIdSame(constraint_id) == constraint_id

\* line 50: self._constraint_id += 1
NextConstraintId(constraint_id) == constraint_id + 1

\* the transformer called with a statement: rules go through visit_Rule, any
\* other statement is returned as it is
Transform(stm, constraint_head_symbol, constraint_id, include_id) ==
    IF stm.ast_type = "Rule"
    THEN visit_Rule(stm, constraint_head_symbol, constraint_id, include_id)
    ELSE stm

\* line 17-22: ConstraintTransformer(constraint_head_symbol, include_id=...)
InitTagger ==
    /\ NoCoreComputer
    /\ NoExplorer
    /\ NoPreprocessor
    /\ NoLocator
    /\ NoTransformer
    /\ NoPropagator
    /\ _include_id \in BOOLEAN
    /\ _constraint_id = 1
    /\ constraint_location_lookup = <<>>
    /\ visited_nodes = <<>>
    /\ emitted_nodes = <<>>
    /\ line = 1

\* line 62 / 71: the parser hands the next statement of the text to the
\* transformer (line 24-54)
TaggerVisit ==
    /\ Len(visited_nodes) < MaxVisits
    /\ \E stm \in TaggerStatements(line) :
        /\ visited_nodes' = Append(visited_nodes, stm)
        /\ emitted_nodes' = Append(emitted_nodes,
                                   Transform(stm, _constraint_head_symbol, _constraint_id,
                                             _include_id))
        /\ IF stm.ast_type = "Rule" /\ IsConstraint(stm)
           THEN /\ constraint_location_lookup' =
                        SetLocation(constraint_location_lookup, _constraint_id, stm.location)
                /\ _constraint_id' = NextConstraintId(_constraint_id)
           ELSE UNCHANGED <<constraint_location_lookup, _constraint_id>>
    /\ line' = line + 1
    /\ UNCHANGED _include_id
    /\ UNCHANGED tagger_rest

\* line 56-72: parse_string / parse_files returns and is called with another text
TaggerNewText ==
    /\ line # 1
    /\ line' = 1
    /\ UNCHANGED <<_include_id, _constraint_id, constraint_location_lookup, visited_nodes,
                   emitted_nodes>>
    /\ UNCHANGED tagger_rest

NextTagger ==
    \/ TaggerVisit
    \/ TaggerNewText

SpecTagger == InitTagger /\ [][NextTagger]_<<vars, other_vars>>

\* the number of integrity constraints among the first i statements visited
ConstraintRank(i) == Cardinality({j \in 1..i : IsConstraint(visited_nodes[j])})

\* what the claim expects of the visited statements, for constraint heads
\* that carry their id if with_id holds
TaggedAsExpected(with_id) ==
    /\ Len(emitted_nodes) = Len(visited_nodes)
    /\ DOMAIN constraint_location_lookup = 1..ConstraintRank(Len(visited_nodes))
    /\ \A i \in 1..Len(visited_nodes) :
        IF visited_nodes[i].ast_type = "Rule" /\ IsConstraint(visited_nodes[i])
        THEN /\ emitted_nodes[i].head =
                    Function(_constraint_head_symbol,
                             IF with_id THEN <<ConstraintRank(i)>> ELSE <<>>)
             /\ [emitted_nodes[i] EXCEPT !.head = FalseHead] = visited_nodes[i]
             /\ constraint_location_lookup[ConstraintRank(i)] = visited_nodes[i].location
        ELSE emitted_nodes[i] = visited_nodes[i]

\* C19 (as claimed): over all rules visited by one ConstraintTransformer the
\* i-th integrity constraint visited is rewritten to derive the tag atom with
\* id i, no two constraints get the same id, constraint_location_lookup maps
\* every assigned id to the location of exactly that constraint, and every
\* rule that is not an integrity constraint is emitted unchanged.
C19_TagsCarryDenseIds == TaggedAsExpected(TRUE)

\* C19 (amended): the same for a transformer constructed with include_id=True;
\* without include_id the tag atom carries no id, while the ids are still
\* counted and the locations recorded in the same way.
C19_TagsCarryDenseIdsIfIncluded == TaggedAsExpected(_include_id)

\* two constraints at the same line of different texts were tagged with their
\* ids, with a rule that is no constraint visited as well
C19_Witness ==
    /\ _include_id
    /\ \E i, j \in 1..Len(visited_nodes) :
        /\ i < j
        /\ IsConstraint(visited_nodes[i])
        /\ IsConstraint(visited_nodes[j])
        /\ visited_nodes[i].location = visited_nodes[j].location
        /\ emitted_nodes[i].head.arguments # emitted_nodes[j].head.arguments
    /\ \E i \in 1..Len(visited_nodes) :
        visited_nodes[i].ast_type = "Rule" /\ ~ IsConstraint(visited_nodes[i])


\* ==== the unsat-constraint locator ================================================
\* (src/src/clingexplaid/unsat_constraints/unsat_constraint_computer.py)

\* the name of the tag atom
UNSAT_CONSTRAINT_SIGNATURE == "__unsat__"

\* the weights of the optimisation statements of a program
Weights == 1..2

\* { h }.
ChoiceNode(h, location) == RuleNode(AggregateHead(h), {}, {}, location)

\* every program given to the locator opens with a choice for each atom
RECURSIVE ChoicePrefix(_)
ChoicePrefix(n) ==
    IF n = 0 THEN <<>> ELSE Append(ChoicePrefix(n - 1), ChoiceNode(n, n))

\* the statements that follow at a location: integrity constraints with one
\* body literal and optimisation statements of the program's own
LocatorStatements(location) ==
    {RuleNode(FalseHead, {b}, {}, location) : b \in Atoms}
    \cup {RuleNode(FalseHead, {}, {b}, location) : b \in Atoms}
    \cup {MinimizeNode(w, b, location) : w \in Weights, b \in Atoms}

\* the programs of up to MaxStatements such statements
RECURSIVE LocatorTexts(_)
LocatorTexts(n) ==
    IF n = 0 THEN {ChoicePrefix(NumAtoms)}
    ELSE LocatorTexts(n - 1)
         \cup {Append(text, stm) : text \in {t \in LocatorTexts(n - 1) :
                                                Len(t) = NumAtoms + n - 1},
                                   stm \in LocatorStatements(NumAtoms + n)}

LocatorPrograms == LocatorTexts(MaxStatements)

\* transformer_constraint.py line 56-72: the statements of a text passed
\* through one ConstraintTransformer, with the transformer's state after them
RECURSIVE ct_parse(_, _, _)
ct_parse(stms, constraint_head_symbol, include_id) ==
    IF stms = <<>> THEN [out |-> <<>>, _constraint_id |-> 1,
                         constraint_location_lookup |-> <<>>]
    ELSE LET n    == Len(stms)
             ct   == ct_parse(SubSeq(stms, 1, n - 1), constraint_head_symbol, include_id)
             stm  == stms[n]
             cons == stm.ast_type = "Rule" /\ IsConstraint(stm)
         IN  [out |-> Append(ct.out, Transform(stm, constraint_head_symbol, ct._constraint_id,
                                               include_id)),
              _constraint_id |-> IF cons THEN NextConstraintId(ct._constraint_id)
                                 ELSE ct._constraint_id,
              constraint_location_lookup |->
                  IF cons THEN SetLocation(ct.constraint_location_lookup,
                                           ct._constraint_id, stm.location)
                  ELSE ct.constraint_location_lookup]

\* transformer_optimization_remover.py line 20-50: every optimisation
\* statement becomes a placeholder whose line post_transform drops
OptimizationRemover(stms) == SelectSeq(stms, LAMBDA stm : stm.ast_type # "Minimize")

\* line 22-30: UnsatConstraintComputer()
InitLocator ==
    /\ NoCoreComputer
    /\ NoExplorer
    /\ NoPreprocessor
    /\ NoTagger
    /\ NoLocator
    /\ NoTransformer
    /\ NoPropagator

\* line 32-39: parse_string(program_string); a later parse call overwrites
\* all that an earlier one has set, so one call reaches every state
LocatorParseString ==
    /\ ~ initialized
    /\ control_program = {}
    /\ \E program \in LocatorPrograms :
        LET ct == ct_parse(program, UNSAT_CONSTRAINT_SIGNATURE, TRUE)
        IN  /\ program_transformed' = {ct.out}
            /\ _file_constraint_lookup' = ct.constraint_location_lookup
            /\ locator_input' = {[entry |-> "parse_string", program |-> program]}
    /\ initialized' = TRUE
    /\ UNCHANGED <<control_program, unsat_constraints_out, assumption_strings>>
    /\ UNCHANGED locator_rest

\* line 41-57: parse_files(files)
LocatorParseFiles ==
    /\ ~ initialized
    /\ control_program = {}
    /\ \E program \in LocatorPrograms :
        LET ct == ct_parse(program, UNSAT_CONSTRAINT_SIGNATURE, TRUE)
        IN  /\ program_transformed' = {OptimizationRemover(ct.out)}
            /\ _file_constraint_lookup' = ct.constraint_location_lookup
            /\ locator_input' = {[entry |-> "parse_files", program |-> program]}
    /\ initialized' = TRUE
    /\ UNCHANGED <<control_program, unsat_constraints_out, assumption_strings>>
    /\ UNCHANGED locator_rest

\* line 88: #minimize {1,X : tag(X)}.
minimizer_rule == Node("Minimize", Function(UNSAT_CONSTRAINT_SIGNATURE, <<>>), {}, {}, 1, 0)

\* line 94-95: the line starts with the tag atom and its id
IsTaggedLine(stm) ==
    /\ stm.ast_type = "Rule"
    /\ stm.head.ast_type = "Function"
    /\ stm.head.name = UNSAT_CONSTRAINT_SIGNATURE
    /\ Len(stm.head.arguments) = 1

\* line 99-101: the line without the tag atom
ConstraintText(stm) == [stm EXCEPT !.head = FalseHead]

\* line 91-101: constraint_lookup, from the lines of the program in their order
RECURSIVE constraint_lookup(_)
constraint_lookup(stms) ==
    IF stms = <<>> THEN <<>>
    ELSE LET n    == Len(stms)
             rest == constraint_lookup(SubSeq(stms, 1, n - 1))
         IN  IF IsTaggedLine(stms[n])
             THEN SetLocation(rest, stms[n].head.arguments[1], ConstraintText(stms[n]))
             ELSE rest

\* the body of a statement holds in an interpretation
BodyHolds(stm, X) == stm.body_pos \subseteq X /\ stm.body_neg \cap X = {}

\* the atoms a program has a choice for
Choosable(program) ==
    {stm.head.value : stm \in {s \in program : s.ast_type = "Rule"
                                               /\ s.head.ast_type = "Aggregate"}}

\* the atoms a program has a fact for
FactAtoms(program) ==
    {stm.head.value : stm \in {s \in program : /\ s.ast_type = "Rule"
                                               /\ s.head.atom = "SymbolicAtom"
                                               /\ s.body_pos \cup s.body_neg = {}}}

\* line 103-106: the answer sets of a program of choices, facts, constraints
\* and tagged constraints
Models(program) ==
    {X \in SUBSET (Choosable(program) \cup FactAtoms(program)) :
        /\ FactAtoms(program) \subseteq X
        /\ \A stm \in program :
            (stm.ast_type = "Rule" /\ IsConstraint(stm)) => ~ BodyHolds(stm, X)}

\* line 111: the ids of the tag atoms of an answer set
Tags(program, X) ==
    {stm.head.arguments[1] : stm \in {s \in program : IsTaggedLine(s) /\ BodyHolds(s, X)}}

\* the sum of a set of numbers
RECURSIVE Sum(_)
Sum(S) == IF S = {} THEN 0 ELSE LET x == CHOOSE y \in S : TRUE IN x + Sum(S \ {x})

\* the value of an answer set under the optimisation statements of the
\* program: every term tuple counts once, (w) for the own statements and
\* (1, X) for the statement of line 88
Cost(program, X) ==
    LET own == {stm.weight : stm \in {s \in program : /\ s.ast_type = "Minimize"
                                                       /\ s.head.ast_type = "none"
                                                       /\ BodyHolds(s, X)}}
    IN  Sum(own) + (IF minimizer_rule \in program THEN Cardinality(Tags(program, X)) ELSE 0)

\* line 106-114: the last model of the solve call is an optimal one
OptimalModels(program) ==
    {X \in Models(program) : \A Y \in Models(program) : Cost(program, X) <= Cost(program, Y)}

\* line 115-119: the map from the ids of the model's tag atoms to their constraints
UnsatConstraints(lookup, ids) == [k \in ids |-> IF k \in DOMAIN lookup THEN lookup[k] ELSE "None"]

\* line 65-121: get_unsat_constraints() on an initialized computer
GetUnsatConstraints ==
    /\ initialized
    /\ control_program = {}
    /\ LET program_text == Append(Val(program_transformed), minimizer_rule)
       IN  /\ control_program' = control_program \cup Range(program_text)
           /\ IF Models(control_program') = {}
              THEN unsat_constraints_out' = {<<>>}
              ELSE \E model \in OptimalModels(control_program') :
                     unsat_constraints_out' =
                         {UnsatConstraints(constraint_lookup(program_text),
                                           Tags(control_program', model))}
    /\ assumption_strings' = Append(assumption_strings, {})
    /\ UNCHANGED <<program_transformed, _file_constraint_lookup, initialized, locator_input>>
    /\ UNCHANGED locator_rest

\* line 71-75: get_unsat_constraints() before parse_string or parse_files
GetUnsatConstraintsUninitialized ==
    /\ ~ initialized
    /\ unsat_constraints_out = {}
    /\ unsat_constraints_out' = {"ValueError"}
    /\ UNCHANGED <<program_transformed, _file_constraint_lookup, initialized, control_program,
                   locator_input, assumption_strings>>
    /\ UNCHANGED locator_rest

NextLocator ==
    \/ LocatorParseString
    \/ LocatorParseFiles
    \/ GetUnsatConstraints
    \/ GetUnsatConstraintsUninitialized

SpecLocator == InitLocator /\ [][NextLocator]_<<vars, other_vars>>

\* the statements of the input program that count for its satisfiability
InputProgram == Range(Val(locator_input).program)

\* the input program tagged, as the claim understands the tagged program
TaggedProgram == Range(ct_parse(Val(locator_input).program, UNSAT_CONSTRAINT_SIGNATURE, TRUE).out)

\* the sets of tags that the models of the tagged program fire
FiredSets == {Tags(TaggedProgram, X) : X \in Models(TaggedProgram)}

\* get_unsat_constraints has returned a map
Located == control_program # {} /\ unsat_constraints_out # {}

\* C20: get_unsat_constraints returns the empty map when the input program is
\* satisfiable, and otherwise the tags of a minimum-cardinality set of
\* constraints whose firing admits a model of the tagged program, for
\* programs loaded with parse_string as well as with parse_files, including
\* programs with optimisation statements of their own.
C20_MinimumCardinalityTags ==
    Located =>
        LET ids == DOMAIN Val(unsat_constraints_out)
        IN  /\ Models(InputProgram) # {} => ids = {}
            /\ ids \in FiredSets
            /\ \A fired \in FiredSets : Cardinality(ids) <= Cardinality(fired)

\* the same for programs loaded with parse_files
C20_MinimumCardinalityTagsOfFiles ==
    (Located /\ Val(locator_input).entry = "parse_files") =>
        LET ids == DOMAIN Val(unsat_constraints_out)
        IN  /\ Models(InputProgram) # {} => ids = {}
            /\ ids \in FiredSets
            /\ \A fired \in FiredSets : Cardinality(ids) <= Cardinality(fired)

\* parse_string or parse_files has completed
LocatorParsed == initialized /\ locator_input # {}

\* C21: the Optimisation Remover is applied after constraint tagging on both
\* entry points: after parse_string as well as after parse_files,
\* program_transformed contains no #minimize/#maximize statement of the input.
C21_NoOptimisationStatement ==
    LocatorParsed =>
        \A stm \in Range(Val(program_transformed)) : stm.ast_type # "Minimize"

\* the same after parse_files alone
C21_NoOptimisationStatementOfFiles ==
    (LocatorParsed /\ Val(locator_input).entry = "parse_files") =>
        \A stm \in Range(Val(program_transformed)) : stm.ast_type # "Minimize"


\* ==== the assumption transformer ==================================================
\* (src/src/clingexplaid/transformers/transformer_assumption.py)

\* line 150: sym.literal, the literal of an atom of the control (literal 1 is
\* the true literal)
SymbolLiteral(sym) == sym + 1

\* line 65-72: the rule is converted by a transformer without filters
IsConvertedFact(node) ==
    /\ node.ast_type = "Rule"
    /\ node.head = "Literal"
    /\ node.body_pos \cup node.body_neg = {}

\* line 73: the rules appended to self.fact_rules by the statements of a text
visited_fact_rules(text) == SelectSeq(text, IsConvertedFact)

\* line 87-93: the names stored by visit_Definition for a text
visited_constants(text) ==
    UNION {text[i].names : i \in {j \in 1..Len(text) : text[j].ast_type = "Definition"}}

\* line 135-142: the facts of the control grounded on self.fact_rules with
\* the program's constants
fact_symbols(rules, constants) ==
    UNION {IF rules[i].names \subseteq constants THEN rules[i].atoms ELSE {} :
           i \in 1..Len(rules)}

\* the outcome of a get_assumption_literals call with the state it was made in
LiteralsOutcome(raised, literals) ==
    [raised |-> raised, literals |-> literals, transformed |-> transformed,
     grounded |-> control_grounded]

\* line 45-49: AssumptionTransformer() and a new clingo.Control()
InitTransformer ==
    /\ NoCoreComputer
    /\ NoExplorer
    /\ NoPreprocessor
    /\ NoTagger
    /\ NoLocator
    /\ NoTransformer
    /\ NoPropagator

\* line 95-112: parse_string(string) / parse_files(paths)
TransformerParse ==
    /\ ~ transformed
    /\ \E text \in ShortTexts :
        /\ fact_rules' = fact_rules \o visited_fact_rules(parse_string(text))
        /\ program_constants' = program_constants \cup visited_constants(text)
    /\ transformed' = TRUE
    /\ UNCHANGED <<control_grounded, symbolic_atoms, literals_out>>
    /\ UNCHANGED transformer_rest

\* the caller grounds the control on a program with the given atoms
ControlGround ==
    /\ \E atoms \in SUBSET Atoms :
        /\ symbolic_atoms \subseteq atoms
        /\ symbolic_atoms' = atoms
    /\ control_grounded # "after"
    /\ control_grounded' = IF transformed THEN "after" ELSE "before"
    /\ UNCHANGED <<fact_rules, transformed, program_constants, literals_out>>
    /\ UNCHANGED transformer_rest

\* line 114-151: get_assumption_literals(control)
GetAssumptionLiterals ==
    /\ literals_out' =
        IF ~ transformed
        THEN {LiteralsOutcome("UntransformedException", {})}
        ELSE IF Cardinality(symbolic_atoms) = 0
        THEN {LiteralsOutcome("NotGroundedException", {})}
        ELSE {LiteralsOutcome("none",
                 {SymbolLiteral(sym) :
                     sym \in fact_symbols(fact_rules, program_constants) \cap symbolic_atoms})}
    /\ UNCHANGED <<fact_rules, transformed, program_constants, control_grounded,
                   symbolic_atoms>>
    /\ UNCHANGED transformer_rest

NextTransformer ==
    \/ TransformerParse
    \/ ControlGround
    \/ GetAssumptionLiterals

SpecTransformer == InitTransformer /\ [][NextTransformer]_<<vars, other_vars>>

\* C22: get_assumption_literals raises UntransformedException whenever no
\* parse_string/parse_files call has completed (whatever the state of the
\* control), otherwise raises NotGroundedException whenever the control has
\* not been grounded; it never returns an empty set for an ungrounded control,
\* and it raises neither exception for a control that has been grounded after
\* a completed parse.
C22_ExceptionsByState ==
    literals_out # {} =>
        LET o == Val(literals_out)
        IN  /\ ~ o.transformed => o.raised = "UntransformedException"
            /\ (o.transformed /\ o.grounded = "no") => o.raised = "NotGroundedException"
            /\ (o.transformed /\ o.grounded = "after") => o.raised = "none"

\* the same without the last part: what is raised before a parse has
\* completed and for a control that was never grounded
C22_ExceptionsBeforeGrounding ==
    literals_out # {} =>
        LET o == Val(literals_out)
        IN  /\ ~ o.transformed => o.raised = "UntransformedException"
            /\ (o.transformed /\ o.grounded = "no") => o.raised = "NotGroundedException"


\* ==== the solver-decision observer ================================================
\* (src/src/clingexplaid/propagators/propagator_solver_decisions.py)

\* the solver literals of the program: literal 1 is the true literal, the
\* decision of level 0
SolverLiterals == {l + 1 : l \in Lits}

\* a solver literal in either polarity
SignedLiterals == SolverLiterals \cup {-l : l \in SolverLiterals}

\* line 72-75: self.literal_symbol_lookup.get(l): the literals with an odd
\* number belong to symbolic atoms, the others are internal (None, here 0)
literal_symbol_lookup(l) == IF l % 2 = 1 /\ l \in SolverLiterals THEN l ELSE 0

\* line 77-86: both polarities of every symbolic atom are watched (no signatures)
IsWatched(l) == literal_symbol_lookup(Abs(l)) # 0

\* line 125-131: literal_to_decision(literal)
literal_to_decision(l) ==
    [positive |-> l >= 0, literal |-> Abs(l), symbol |-> literal_symbol_lookup(Abs(l))]

\* a decision level of the assignment: its decision literal and the literals
\* that follow it on the trail
Level(d, entailed) == [decision |-> d, entailments |-> entailed]

\* an element of a decision sequence: a Decision, or a list of Decisions
Element(kind, items) == [kind |-> kind, items |-> items]

\* line 133-146: literal_to_decision_sequence on the elements of one level
\* (line 96-100: the decision, then its entailments if it has any)
LevelSequence(level) ==
    <<Element("Decision", <<literal_to_decision(level.decision)>>)>>
    \o (IF Len(level.entailments) > 0
        THEN <<Element("list", [i \in 1..Len(level.entailments) |->
                                    literal_to_decision(level.entailments[i])])>>
        ELSE <<>>)

\* line 94-102: the decision sequence of an assignment
RECURSIVE decision_sequence(_)
decision_sequence(levels) ==
    IF levels = <<>> THEN <<>>
    ELSE decision_sequence(SubSeq(levels, 1, Len(levels) - 1))
         \o LevelSequence(levels[Len(levels)])

\* line 105-111: the elements at the positions from i on at which the
\* sequence differs from the last one or extends it
RECURSIVE decision_diff(_, _, _)
decision_diff(last, sequence, i) ==
    IF i > Len(sequence) THEN <<>>
    ELSE (IF i <= Len(last) /\ last[i] = sequence[i] THEN <<>> ELSE <<sequence[i]>>)
         \o decision_diff(last, sequence, i + 1)

\* the variables of the literals assigned at the levels of an assignment
AssignedVariables(levels) ==
    UNION {{Abs(levels[i].decision)} \cup {Abs(e) : e \in Range(levels[i].entailments)} :
           i \in 1..Len(levels)}

\* the levels the solver can open on an assignment: a decision on a free
\* literal, with at most one literal entailed (a negative one)
NewLevels(levels) ==
    LET free == {l \in SignedLiterals : Abs(l) \notin AssignedVariables(levels)}
    IN  {Level(d, <<>>) : d \in free}
        \cup {Level(pair[1], <<pair[2]>>) :
                pair \in {q \in free \X free : Abs(q[1]) # Abs(q[2]) /\ q[2] < 0}}

\* a watched literal is assigned at the level
HasWatched(level) ==
    IsWatched(level.decision) \/ \E e \in Range(level.entailments) : IsWatched(e)

\* line 51-86: the propagator registered with a control whose assignment
\* holds level 0 only
InitPropagator ==
    /\ NoCoreComputer
    /\ NoExplorer
    /\ NoPreprocessor
    /\ NoTagger
    /\ NoLocator
    /\ NoTransformer
    /\ stack = <<Level(1, <<>>)>>
    /\ last_decisions = <<>>
    /\ propagate_out = {}
    /\ undo_out = {}
    /\ undone_decisions = {}

\* the solver opens a level without a watched literal: no handler is called
DecideUnwatched ==
    /\ \E level \in NewLevels(stack) :
        /\ ~ HasWatched(level)
        /\ stack' = Append(stack, level)
    /\ UNCHANGED <<last_decisions, propagate_out, undo_out, undone_decisions>>
    /\ UNCHANGED propagator_rest

\* line 88-115: the solver opens a level with a watched literal and calls
\* propagate(control, changes)
Propagate ==
    /\ \E level \in NewLevels(stack) :
        /\ HasWatched(level)
        /\ stack' = Append(stack, level)
    /\ LET sequence == decision_sequence(stack')
       IN  /\ last_decisions' = sequence
           /\ propagate_out' = {[previous |-> last_decisions,
                                 sequence |-> sequence,
                                 diff     |-> decision_diff(last_decisions, sequence, 1),
                                 undone   |-> undone_decisions]}
    /\ undone_decisions' = {}
    /\ UNCHANGED undo_out
    /\ UNCHANGED propagator_rest

\* the solver backtracks a level without a watched literal: no handler is called
BacktrackUnwatched ==
    /\ Len(stack) > 1
    /\ ~ HasWatched(stack[Len(stack)])
    /\ stack' = SubSeq(stack, 1, Len(stack) - 1)
    /\ UNCHANGED <<last_decisions, propagate_out, undo_out, undone_decisions>>
    /\ UNCHANGED propagator_rest

\* line 117-123: the solver backtracks a level with a watched literal and
\* calls undo(thread_id, assignment, changes)
Undo ==
    /\ Len(stack) > 1
    /\ HasWatched(stack[Len(stack)])
    /\ stack' = SubSeq(stack, 1, Len(stack) - 1)
    /\ undo_out' = {[decision   |-> literal_to_decision(stack[Len(stack)].decision),
                     remembered |-> last_decisions,
                     events     |-> 1]}
    /\ undone_decisions' = undone_decisions \cup {stack[Len(stack)].decision}
    /\ UNCHANGED <<last_decisions, propagate_out>>
    /\ UNCHANGED propagator_rest

NextPropagator ==
    \/ DecideUnwatched
    \/ Propagate
    \/ BacktrackUnwatched
    \/ Undo

SpecPropagator == InitPropagator /\ [][NextPropagator]_<<vars, other_vars>>

\* the length of the longest common prefix of two sequences
RECURSIVE CommonPrefix(_, _)
CommonPrefix(a, b) ==
    IF a = <<>> \/ b = <<>> \/ a[1] # b[1] THEN 0
    ELSE 1 + CommonPrefix(Tail(a), Tail(b))

\* C23: on every propagate call the observer emits to callback_propagate
\* exactly the delta of the decision stack: the part of the current stack
\* (decisions with their entailments) that follows its longest common prefix
\* with the stack observed at the previous propagate call, and nothing from
\* the matching prefix.
C23_EmitsDelta ==
    propagate_out # {} =>
        LET o == Val(propagate_out)
        IN  o.diff = SubSeq(o.sequence, CommonPrefix(o.previous, o.sequence) + 1,
                            Len(o.sequence))

\* C24: every undo call pops the backtracked decision from the observer's
\* remembered decision stack and emits one undo event, so that a decision
\* that is undone and then made again is emitted again by the next propagate
\* call.
C24_UndoPopsAndReemits ==
    /\ undo_out # {} =>
        LET u == Val(undo_out)
        IN  /\ u.events = 1
            /\ Element("Decision", <<u.decision>>) \notin Range(u.remembered)
    /\ propagate_out # {} =>
        LET o == Val(propagate_out)
        IN  \A l \in o.undone :
                Element("Decision", <<literal_to_decision(l)>>) \in Range(o.sequence)
                    => Element("Decision", <<literal_to_decision(l)>>) \in Range(o.diff)

\* every undo call emits one undo event
C24_UndoEmitsOneEvent == undo_out # {} => Val(undo_out).events = 1


\* ==== CoreComputer, continued ====================================================

\* get_multiple_minimal is inside _compute_single_minimal for a candidate
ComputingCandidate == op = "gmm" /\ pc \in {"first", "loop", "check"}

\* C25: get_multiple_minimal never runs the single-MUS computation on a
\* candidate subset that contains (as a superset) a MUS it has already
\* yielded in the same run: such candidates are skipped.
C25_SupersetsOfYieldedSkipped ==
    ComputingCandidate =>
        \A i \in 1..Len(yielded) :
            yielded[i].minimal => ~ (Literals(yielded[i]) \subseteq a_literals)


\* an iteration of the deletion loop has ended: the loop is about to take
\* its next assumption, or _compute_single_minimal has returned from the loop
IterationEnded ==
    /\ tested # <<>>
    /\ pc \in {"loop", "done", "gmm"}

\* C26: throughout the deletion loop of _compute_single_minimal (entered only
\* when A is unsatisfiable), at the end of every iteration the union of the
\* working set W and the essential set M is unsatisfiable, M and W are
\* disjoint subsets of A, and every assumption already processed is either in
\* M or has been discarded.
C26_DeletionLoopInvariant ==
    IterationEnded =>
        /\ ~ _is_satisfiable(W \cup M)
        /\ M \cap W = {}
        /\ M \subseteq a_literals
        /\ W \subseteq a_literals
        /\ \A a \in Range(tested) : a \in M \/ (a \notin W /\ a \in removed)

\* an iteration has ended with its assumption kept as essential, and the
\* loop goes on with assumptions left in the working set
C26_Witness ==
    /\ pc = "loop"
    /\ tested # <<>>
    /\ M # {}
    /\ W # {}
    /\ ~ _is_satisfiable(a_literals)
\* ---- Explorer.reset (explorers/base.py) ------------------------------------------
\* the reset() calls a behaviour may make
MayReset == after_reset = "never"

\* base.py line 44-47: reset() on an ExplorerPowerset clears the two lists
PowersetReset ==
    /\ explorer = "powerset"
    /\ MayReset
    /\ _found_sat' = <<>>
    /\ _found_mus' = <<>>
    /\ after_reset' = "last"
    /\ explored_out' = {}
    /\ UNCHANGED <<explorer, _assumptions, _powerset, _assumption_to_rid, _control,
                   candidates_out, turns, candidate>>
    /\ UNCHANGED explorer_rest

\* base.py line 44-47: reset() on an ExplorerAsp clears the two lists
AspReset ==
    /\ explorer = "asp"
    /\ MayReset
    /\ _found_sat' = <<>>
    /\ _found_mus' = <<>>
    /\ after_reset' = "last"
    /\ candidate' = {}
    /\ UNCHANGED <<explorer, _assumptions, _powerset, _assumption_to_rid, _control,
                   candidates_out, turns, explored_out>>
    /\ UNCHANGED explorer_rest

\* an Explorer of either class, reset in the middle of its use
InitReset == InitPowerset \/ InitAsp

\* sets are recorded before the reset, candidates are requested before and after it
NextReset ==
    \/ PowersetNext
    \/ MayReset /\ PowersetAddSat
    \/ MayReset /\ PowersetAddMus
    \/ PowersetReset
    \/ MayReset /\ AspAddSat
    \/ MayReset /\ AspAddMus
    \/ AspNext
    \/ AspReset

SpecReset == InitReset /\ [][NextReset]_<<vars, other_vars>>

\* powerset.py line 17-28: the sets candidates() can yield from the current state
PowersetYieldable ==
    {current_subset \in Range(_powerset) :
        ~ PowersetSkipped(current_subset, _found_sat, _found_mus)}

\* asp.py line 123-125: explored() answers UNKNOWN when neither list holds a set
AspExploredUnknown == Len(_found_sat) + Len(_found_mus) = 0

\* C27 (as claimed): right after reset() candidates() can again yield every
\* non-empty subset of the assumptions, and explored() answers Unknown for
\* every set, for ExplorerPowerset and ExplorerAsp alike.
C27_ResetLikeNew ==
    after_reset = "last" =>
        /\ explorer = "powerset" =>
            /\ SUBSET _assumptions \ {{}} \subseteq PowersetYieldable
            /\ \A query \in SUBSET _assumptions :
                PowersetExploredStatus(query, _found_sat, _found_mus) = UNKNOWN
        /\ explorer = "asp" =>
            /\ SUBSET _assumptions \ {{}} \subseteq AspYieldable
            /\ AspExploredUnknown

\* ---- ExplorerAsp.candidates() with its history (explorers/asp.py) ---------------
MaxCandidates == 3  \* candidates requested from one ExplorerAsp

\* a yielded set with the lengths of the two lists at the time of the yield
Yield(assumptions) ==
    [subset |-> assumptions, sat |-> Len(_found_sat), mus |-> Len(_found_mus)]

\* line 106-118: next(candidates()), remembered in candidates_out
AspCandidate ==
    /\ explorer = "asp"
    /\ Len(candidates_out) < MaxCandidates
    /\ \E model \in AnswerSets(_control) :
        /\ candidate' = {ModelAssumptions(model)}
        /\ candidates_out' = Append(candidates_out, Yield(ModelAssumptions(model)))
    /\ after_reset' = LaterCall
    /\ UNCHANGED <<explorer, _assumptions, _powerset, _found_sat, _found_mus,
                   _assumption_to_rid, _control, turns, explored_out>>
    /\ UNCHANGED explorer_rest

\* the caller records the candidate it was given as satisfiable
RecordsCandidateSat ==
    /\ candidate # {}
    /\ AspAddSat
    /\ _found_sat'[Len(_found_sat')] = Val(candidate)

\* the caller records a subset of the candidate it was given as a MUS
RecordsCandidateMus ==
    /\ candidate # {}
    /\ AspAddMus
    /\ _found_mus'[Len(_found_mus')] \subseteq Val(candidate)

\* the assumptions are registered in the order of their literals
InitAspCandidates ==
    /\ InitAsp
    /\ \A a, b \in _assumptions : a < b => _assumption_to_rid[a] < _assumption_to_rid[b]

\* a caller that records the candidate it was given, or requests the next
\* candidate with or without having recorded the last one
NextAspCandidates ==
    \/ RecordsCandidateSat
    \/ RecordsCandidateMus
    \/ AspCandidate

SpecAspCandidates == InitAspCandidates /\ [][NextAspCandidates]_<<vars, other_vars>>

\* between the lengths given, add_sat recorded the yielded set itself or add_mus
\* recorded a subset of it
RecordedBetween(yield, sat_to, mus_to) ==
    \/ \E j \in (yield.sat + 1)..sat_to : _found_sat[j] = yield.subset
    \/ \E j \in (yield.mus + 1)..mus_to : _found_mus[j] \subseteq yield.subset

\* every candidate but the last was recorded before the next one was requested
RecordedEachCandidate ==
    \A i \in 1..(Len(candidates_out) - 1) :
        RecordedBetween(candidates_out[i], candidates_out[i + 1].sat, candidates_out[i + 1].mus)

\* the last candidate was recorded as well
RecordedLastCandidate ==
    candidates_out # <<>> =>
        RecordedBetween(candidates_out[Len(candidates_out)], Len(_found_sat), Len(_found_mus))

\* C28: if after every candidate C of ExplorerAsp the caller records add_sat(C)
\* or add_mus(M) for a subset M of C before requesting the next one, no set is
\* yielded twice and at most 2^|A| candidates are yielded: once that many were
\* yielded and recorded, candidates() ends.
C28_NoRepeatWhenRecorded ==
    explorer = "asp" /\ RecordedEachCandidate =>
        /\ \A i, j \in 1..Len(candidates_out) :
            i # j => candidates_out[i].subset # candidates_out[j].subset
        /\ Len(candidates_out) <= 2 ^ Cardinality(_assumptions)
        /\ (RecordedLastCandidate /\ Len(candidates_out) = 2 ^ Cardinality(_assumptions)) =>
            AspYieldable = {}

\* 2^|A| candidates were yielded, each was recorded, and candidates() has ended
C28_Witness ==
    /\ explorer = "asp"
    /\ RecordedEachCandidate
    /\ RecordedLastCandidate
    /\ Len(candidates_out) = 2 ^ Cardinality(_assumptions)
    /\ Len(candidates_out) >= 2
    /\ Len(_found_sat) >= 1
    /\ Len(_found_mus) >= 1
    /\ AspYieldable = {}

\* without a recording in between the same set is yielded twice in a row
C28_RepeatWithoutRecording ==
    /\ explorer = "asp"
    /\ Len(candidates_out) >= 2
    /\ candidates_out[1].subset = candidates_out[2].subset
    /\ candidates_out[1].sat = candidates_out[2].sat
    /\ candidates_out[1].mus = candidates_out[2].mus

\* ---- AssumptionPreprocessor.process called repeatedly ---------------------------
MaxCalls == 2       \* process calls on one AssumptionPreprocessor

\* the process calls completed: each registers the #program base. statement
\* its parse starts with (line 186-188, 159-167)
ProcessCalls ==
    Cardinality({i \in DOMAIN _parsed_rules : _parsed_rules[i] = ProgramBase})

\* line 183-191: process(program_string) on a preprocessor that may have
\* processed a text before
ProcessRepeated ==
    /\ ProcessCalls < MaxCalls
    /\ \E text \in ShortTexts :
        LET done == _process_ast_list(parse_string(text), _parsed_rules, _constants,
                                      preprocessor_assumptions)
        IN /\ _parsed_rules' = done.rules
           /\ _constants' = done.constants
           /\ preprocessor_assumptions' = done.assumptions
           /\ process_out' = {done.rules}
           /\ program_string' = {text}
    /\ _processed' = TRUE
    /\ assumptions_out' = {}
    /\ UNCHANGED <<filters, _filters_convert_nothing, _fail_on_unprocessed>>
    /\ UNCHANGED preprocessor_rest

SpecProcessRepeated == InitRewrite /\ [][ProcessRepeated]_<<vars, other_vars>>

\* C29 (as claimed): the text a process call returns is the transformation of
\* the text it was given alone, whatever was processed before: it holds the
\* rules derived from this call's input and none from earlier calls.
C29_OutputOfThisCallOnly ==
    process_out # {} /\ program_string # {} =>
        Val(process_out) = _process_ast_list(parse_string(Val(program_string)),
                                             <<>>, {}, {}).rules

\* ---- get_unsat_constraints called repeatedly (unsat_constraint_computer.py) -----
MaxGetCalls == 2    \* get_unsat_constraints calls on one UnsatConstraintComputer

\* the assumption_string arguments: None, or a string of one atom
AssumptionStrings == {{}} \cup {{a} : a \in Atoms}

\* a.
FactNode(a) == RuleNode(AtomHead(a), {}, {}, 0)

\* utils/__init__.py line 42-70: the signatures of the atoms of a model string
get_signatures_from_model_string(model_string) == {<<a, 0>> : a \in model_string}

\* transformer_fact.py line 24-57: the facts that match a signature become
\* the removed token, whose lines post_transform drops
FactTransformer(signatures, stms) ==
    SelectSeq(stms, LAMBDA stm :
        ~ (/\ stm.ast_type = "Rule"
           /\ stm.head.ast_type = "Literal"
           /\ stm.body_pos \cup stm.body_neg = {}
           /\ (signatures = {} \/ <<stm.head.value, 0>> \in signatures)))

\* line 77-89: the program string of a call
LocatorProgramString(assumption_string) ==
    LET facts == SortedSeq(assumption_string)
        text  == IF Cardinality(assumption_string) > 0
                 THEN FactTransformer(get_signatures_from_model_string(assumption_string),
                                      Val(program_transformed))
                      \o [i \in 1..Len(facts) |-> FactNode(facts[i])]
                 ELSE Val(program_transformed)
    IN  Append(text, minimizer_rule)

\* line 65-121: get_unsat_constraints(assumption_string) on an initialized
\* computer that may have been asked before
GetUnsatConstraintsWith ==
    /\ initialized
    /\ Len(assumption_strings) < MaxGetCalls
    /\ \E assumption_string \in AssumptionStrings :
        LET program_text == LocatorProgramString(assumption_string)
        IN  /\ control_program' = control_program \cup Range(program_text)
            /\ IF Models(control_program') = {}
               THEN unsat_constraints_out' = {<<>>}
               ELSE \E model \in OptimalModels(control_program') :
                      unsat_constraints_out' =
                          {UnsatConstraints(constraint_lookup(program_text),
                                            Tags(control_program', model))}
            /\ assumption_strings' = Append(assumption_strings, assumption_string)
    /\ UNCHANGED <<program_transformed, _file_constraint_lookup, initialized, locator_input>>
    /\ UNCHANGED locator_rest

\* parse_files on a program of the choices and at most one more statement
ParseShortFiles ==
    /\ LocatorParseFiles
    /\ Len(Val(locator_input').program) <= NumAtoms + 1

\* parse_string on such a program
ParseShortString ==
    /\ LocatorParseString
    /\ Len(Val(locator_input').program) <= NumAtoms + 1

NextLocatorCalls ==
    \/ ParseShortFiles
    \/ ParseShortString
    \/ GetUnsatConstraintsWith

SpecLocatorCalls == InitLocator /\ [][NextLocatorCalls]_<<vars, other_vars>>

\* the maps the first call with an assumption string returns on a computer
\* that has parsed the same program and was not asked before
FirstCallResults(assumption_string) ==
    LET program_text == LocatorProgramString(assumption_string)
        program      == Range(program_text)
    IN  IF Models(program) = {} THEN {<<>>}
        ELSE {UnsatConstraints(constraint_lookup(program_text), Tags(program, model)) :
                model \in OptimalModels(program)}

\* C30 (as claimed): whatever calls were made before, get_unsat_constraints(s)
\* returns a map that the first call with s on a fresh computer for the same
\* program returns: the facts and rules of earlier calls do not count.
C30_ResultOfThisCallOnly ==
    assumption_strings # <<>> /\ unsat_constraints_out # {} =>
        Val(unsat_constraints_out) \in FirstCallResults(assumption_strings[Len(assumption_strings)])

====
